---- MODULE Spec2Model ----
(***************************************************************************)
(* Model of the self-update engine of secret_manager (update.go): one      *)
(* update check of a process, from getLatestRelease to replaceExecutable,  *)
(* together with the delayed backup-cleanup goroutine.                     *)
(*                                                                         *)
(* Strings whose characters matter (version labels, asset names, URLs)     *)
(* are sequences of atoms; file contents are opaque values.                *)
(***************************************************************************)
EXTENDS Integers, Sequences, FiniteSets, TLC

(***************************************************************************)
(* Bounds                                                                  *)
(***************************************************************************)
MaxAssets == 2

(***************************************************************************)
(* Strings                                                                 *)
(***************************************************************************)
\* strings.HasPrefix
HasPrefix(s, p) ==
    /\ Len(p) <= Len(s)
    /\ SubSeq(s, 1, Len(p)) = p

\* strings.HasSuffix
HasSuffix(s, p) ==
    /\ Len(p) <= Len(s)
    /\ SubSeq(s, Len(s) - Len(p) + 1, Len(s)) = p

\* TrimPrefix mistaken for the identity: the label is compared as it is
TrimPrefix_Keep(s, p) == s

\* TrimPrefix mistaken for TrimLeft: every leading p is stripped
RECURSIVE TrimPrefix_All(_, _)
TrimPrefix_All(s, p) ==
    IF Len(p) > 0 /\ HasPrefix(s, p)
    THEN TrimPrefix_All(SubSeq(s, Len(p) + 1, Len(s)), p)
    ELSE s

\* strings.TrimPrefix: s without the leading p, s itself if p is no prefix
TrimPrefix(s, p) ==
    IF HasPrefix(s, p) THEN SubSeq(s, Len(p) + 1, Len(s)) ELSE s

\* strings.Contains
Contains(s, sub) ==
    \E i \in 0..(Len(s) - Len(sub)) : SubSeq(s, i + 1, i + Len(sub)) = sub

\* the prefix stripped from both labels, and the development sentinel
VPrefix == <<"v">>
DevLabel == <<"d", "e", "v">>

\* version labels the build or the release can carry
Labels ==
    { <<"d", "e", "v">>,
      <<"v", "d", "e", "v">>,
      <<"1">>,
      <<"v", "1">>,
      <<"v", "v", "1">>,
      <<"v", "2">>,
      <<"0">> }

(***************************************************************************)
(* Platform                                                                *)
(***************************************************************************)
Platforms == {"linux", "windows"}
GOARCH == "amd64"

\* isWindows()
IsWindows(os) == os = "windows"

\* the token without the special case for Windows
PlatformToken_NoExe(os) == <<os, "-", GOARCH>>

\* the platform token of findAssetURL
PlatformToken(os) ==
    IF IsWindows(os)
    THEN <<"windows", "-", GOARCH, ".exe">>
    ELSE <<os, "-", GOARCH>>

(***************************************************************************)
(* Release metadata                                                        *)
(***************************************************************************)
URLRaw == <<"h", "/", "sm">>
URLExe == <<"h", "/", "sm", ".exe">>
URLZip == <<"h", "/", "sm", ".zip">>
URLTgz == <<"h", "/", "sm", ".tar", ".gz">>
URLQuery == <<"h", "/", "sm", ".zip", "?", "dl">>
NoURL  == << >>

Assets ==
    { [name |-> <<"sm", "-", "linux", "-", "amd64">>, url |-> URLRaw],
      [name |-> <<"sm", "-", "linux", "-", "amd64", ".tar", ".gz">>, url |-> URLTgz],
      [name |-> <<"sm", "-", "windows", "-", "amd64", ".exe">>, url |-> URLQuery],
      [name |-> <<"sm", "-", "windows", "-", "amd64", ".exe", ".zip">>, url |-> URLZip],
      [name |-> <<"sm", "-", "windows", "-", "amd64", ".zip">>, url |-> URLExe],
      [name |-> <<"sm", "-", "linux", "-", "amd64", ".sig">>, url |-> NoURL] }

AssetLists == UNION { [1..n -> Assets] : n \in 0..MaxAssets }

\* GitHubRelease
Releases == [tag : Labels, assets : AssetLists]
NoRelease == [tag |-> << >>, assets |-> << >>]

\* findAssetURL: the URL of the first asset whose name contains the token
RECURSIVE FirstMatch(_, _, _)
FirstMatch(assets, token, i) ==
    IF i > Len(assets) THEN NoURL
    ELSE IF Contains(assets[i].name, token) THEN assets[i].url
    ELSE FirstMatch(assets, token, i + 1)

findAssetURL(rel, os) == FirstMatch(rel.assets, PlatformToken(os), 1)

(***************************************************************************)
(* Errors: the chain of wrapped messages, outermost first; Nil is no error  *)
(***************************************************************************)
Nil == << >>
E(msg) == [msg |-> msg, code |-> 0]
\* the status error without the status code
EStatus_NoCode(code) == [msg |-> "GitHub API returned status", code |-> 0]

EStatus(code) == [msg |-> "GitHub API returned status", code |-> code]

\* fmt.Errorf("<msg>: %w", cause)
Wrap(msg, cause) == <<E(msg)>> \o cause

(***************************************************************************)
(* File system                                                             *)
(***************************************************************************)
CurrentPath == "exe"          \* osExecutable()
TempPath    == "tmp"          \* the file of osCreateTemp
ExtractPath == "ext"          \* filepath.Join(os.TempDir(), entry name)
NoPath      == ""

\* backupPath := currentPath + ".old"
BackupPath(p) == IF p = "exe" THEN "exe.old" ELSE "other.old"

Paths == {CurrentPath, BackupPath(CurrentPath), TempPath, ExtractPath}

Absent == "absent"

\* response bodies of the asset download
Bodies == {"newexe", "zipWith", "zipWithout", "tgzWith", "tgzWithout", "errpage"}

\* os.Remove succeeds only on an existing file
CanRemove(f, p) == f[p] # Absent
RemoveFile(f, p) == [f EXCEPT ![p] = Absent]

\* os.Rename succeeds only with an existing source
CanRename(f, src, dst) == f[src] # Absent

\* a rename that copies: the source stays in place
RenameFile_Copy(f, src, dst) == [f EXCEPT ![dst] = f[src]]

\* os.Rename moves the source to the target and replaces what was there
RenameFile(f, src, dst) == [f EXCEPT ![dst] = f[src], ![src] = Absent]

(***************************************************************************)
(* State                                                                   *)
(***************************************************************************)
VARIABLES
    goos,          \* runtime.GOOS of the build
    version,       \* the version label set at build time
    pc,            \* position of the main flow
    release,       \* result of getLatestRelease
    assetURL,      \* result of findAssetURL
    resp,          \* response of httpClient.Get(url) in downloadAndInstall
    updatePath,    \* updatePath of downloadAndInstall
    deferred,      \* paths whose os.Remove downloadAndInstall has deferred
    fs,            \* content of every path
    fmode,         \* permission bits of every path
    fsAtCall,      \* fs when replaceExecutable was entered
    ops,           \* file operations replaceExecutable has attempted
    cleanups,      \* delayed backup deletions scheduled and not yet run
    scheduled,     \* delayed backup deletions scheduled so far
    requests,      \* GET requests issued to the release endpoint
    apiResp,       \* response to the GET of getLatestRelease
    exits,         \* exit codes main has passed to exitFunc
    extractor,     \* how downloadAndInstall obtained updatePath
    trace,         \* stages executed, in order
    retErr,        \* error on its way to the caller of checkAndUpdate
    outcome,       \* what checkAndUpdate reported
    arFormat,      \* "zip" for extractZip, "tgz" for extractTarGz
    archive,       \* entries of the archive handed to the extraction
    arPc,          \* position inside the extraction
    arIdx,         \* index of the entry the loop looks at
    arOut,         \* the file the extraction has created
    arFault,       \* an I/O operation of the extraction has failed
    chmods,        \* paths osChmod was called on, in order
    arRet,         \* what the extraction returned
    flags,         \* the command line flags main has parsed
    exitFunc,      \* what the variable exitFunc holds
    secretDirs,    \* result of findSecretDirs
    processed,     \* directories handed to processSecretDirectory so far
    files,         \* entries of the directory being processed
    fileIdx,       \* index of the entry the loop looks at
    sourcePath,    \* sourcePath of the running processSymlinkConfig
    cfgTargets,    \* config.Targets of the running processSymlinkConfig
    attempts,      \* targets handed to createSymlink by that call so far
    results,       \* what createSymlink returned for each of them
    links,         \* what is at every target path
    linksAtCall,   \* links when createSymlink was entered
    csOps,         \* removeFunc and symlinkFunc calls of the running createSymlink
    csErr,         \* error returned by createSymlink
    pscErr,        \* error returned by processSymlinkConfig
    psdErr,        \* error returned by processSecretDirectory
    dirErrs        \* directories for which processSecretDirectory failed

arvars == <<arFormat, archive, arPc, arIdx, arOut, arFault, chmods, arRet>>

provvars == <<secretDirs, processed, files, fileIdx, sourcePath, cfgTargets, attempts,
              results, links, linksAtCall, csOps, csErr, pscErr, psdErr,
              dirErrs>>

pvars == <<flags, exitFunc, provvars>>

vars == <<goos, version, pc, release, assetURL, resp, updatePath, deferred,
          fs, fmode, fsAtCall, ops, cleanups, scheduled, requests, apiResp, exits,
          extractor, trace, retErr, outcome, arvars, pvars>>

\* no file created, nothing returned yet
NoOut == [path |-> << >>, content |-> Absent, mode |-> "none"]
NoRet == [path |-> << >>, err |-> Nil]

\* target paths of the symlink configs: two in a directory that exists,
\* one in a directory that does not
T1 == <<"td", "/", "t1">>
T2 == <<"td", "/", "t2">>
T3 == <<"nd", "/", "t3">>

TargetPaths == {T1, T2, T3}

ExistingDirs == {<<"td">>}

NoSource == << >>

\* what a target path can hold
NoLink == [kind |-> "absent", to |-> NoSource]
PlainFile == [kind |-> "file", to |-> NoSource]
LinkTo(source) == [kind |-> "link", to |-> source]

\* what the target paths hold before the program runs
LinksAtStart == [t \in TargetPaths |-> IF t = T2 THEN PlainFile ELSE NoLink]

\* no provisioning has happened
ProvIdle ==
    /\ secretDirs = << >>
    /\ processed = << >>
    /\ files = << >>
    /\ fileIdx = 0
    /\ sourcePath = NoSource
    /\ cfgTargets = << >>
    /\ attempts = << >>
    /\ results = << >>
    /\ links = LinksAtStart
    /\ linksAtCall = LinksAtStart
    /\ csOps = << >>
    /\ csErr = Nil
    /\ pscErr = Nil
    /\ psdErr = Nil
    /\ dirErrs = << >>

\* no extraction is under way
ArIdle ==
    /\ arFormat = "none"
    /\ archive = << >>
    /\ arPc = "idle"
    /\ arIdx = 0
    /\ arOut = NoOut
    /\ arFault = FALSE
    /\ chmods = << >>
    /\ arRet = NoRet

NoResp == [status |-> 0, body |-> Absent]
NoApiResp == [status |-> 0, wellFormed |-> FALSE]

\* var exitFunc = os.Exit; the tests put a function that records the code
\* and returns in its place
OsExit == "os.Exit"
TestExit == "returns"

\* the files present at the start are executables; the download file of
\* os.CreateTemp has mode 0600
ModesAtStart(f) ==
    [p \in Paths |-> IF f[p] = Absent THEN Absent
                     ELSE IF p = TempPath THEN "0600" ELSE "0755"]

Init ==
    /\ goos \in Platforms
    /\ version \in Labels
    /\ pc = "start"
    /\ release = NoRelease
    /\ assetURL = NoURL
    /\ resp = NoResp
    /\ updatePath = NoPath
    /\ deferred = << >>
    /\ \E old \in {Absent, "stale"} :
          fs = [p \in Paths |->
                  IF p = CurrentPath THEN "orig"
                  ELSE IF p = BackupPath(CurrentPath) THEN old
                  ELSE Absent]
    /\ fmode = ModesAtStart(fs)
    /\ fsAtCall = fs
    /\ ops = << >>
    /\ cleanups = 0
    /\ scheduled = 0
    /\ requests = 0
    /\ apiResp = NoApiResp
    /\ exits = << >>
    /\ extractor = "none"
    /\ trace = << >>
    /\ retErr = Nil
    /\ outcome = "none"
    /\ ArIdle
    /\ flags = [version |-> FALSE, update |-> TRUE]
    /\ exitFunc = OsExit
    /\ ProvIdle

(***************************************************************************)
(* checkAndUpdate                                                          *)
(***************************************************************************)
\* checkAndUpdate returns e without running anything else
Return(e, o) ==
    /\ pc' = "done"
    /\ retErr' = e
    /\ outcome' = o

\* statuses of the release endpoint, and a body that does not decode
FetchStatuses == {200, 201, 404}
Malformed == [tag |-> <<"?">>, assets |-> << >>]

\* a fetch that is skipped for a development build
GetLatestRelease_DevSkipsFetch ==
    /\ pc = "start"
    /\ trace' = Append(trace, "fetch")
    /\ IF TrimPrefix(version, VPrefix) = DevLabel
       THEN /\ Return(Nil, "dev")
            /\ UNCHANGED <<release, apiResp, requests>>
       ELSE /\ requests' = requests + 1
            /\ \/ /\ Return(Wrap("failed to get latest release", <<E("transport")>>), "failed")
                  /\ UNCHANGED <<release, apiResp>>
               \/ \E body \in Releases :
                     /\ apiResp' = [status |-> 200, wellFormed |-> TRUE]
                     /\ release' = body
                     /\ pc' = "compare"
                     /\ UNCHANGED <<retErr, outcome>>
    /\ UNCHANGED <<pvars, arvars, goos, version, assetURL, resp, updatePath, deferred, fs, fmode,
                   fsAtCall, ops, cleanups, scheduled, exits, extractor>>

\* getLatestRelease and the error check of checkAndUpdate; httpNewRequest
\* gets a constant method and URL and does not fail
GetLatestRelease ==
    /\ pc = "start"
    /\ trace' = Append(trace, "fetch")
    /\ requests' = requests + 1
    /\ \/ \* httpClient.Do fails
          /\ Return(Wrap("failed to get latest release", <<E("transport")>>), "failed")
          /\ UNCHANGED <<release, apiResp>>
       \/ \E code \in FetchStatuses, body \in Releases \cup {Malformed} :
             /\ apiResp' = [status |-> code, wellFormed |-> body # Malformed]
             /\ IF code # 200
                THEN \* a status other than http.StatusOK
                     /\ Return(Wrap("failed to get latest release", <<EStatus(code)>>), "failed")
                     /\ UNCHANGED release
                ELSE IF body = Malformed
                THEN \* the body does not decode
                     /\ Return(Wrap("failed to get latest release", <<E("decode")>>), "failed")
                     /\ UNCHANGED release
                ELSE /\ release' = body
                     /\ pc' = "compare"
                     /\ UNCHANGED <<retErr, outcome>>
    /\ UNCHANGED <<pvars, arvars, goos, version, assetURL, resp, updatePath, deferred, fs, fmode,
                   fsAtCall, ops, cleanups, scheduled, exits, extractor>>

\* the comparison without the check for the development version
CompareVersions_NoDevCheck ==
    /\ pc = "compare"
    /\ trace' = Append(trace, "compare")
    /\ LET latestVersion == TrimPrefix(release.tag, VPrefix)
           currentVersion == TrimPrefix(version, VPrefix)
       IN  IF latestVersion = currentVersion
           THEN Return(Nil, "latest")
           ELSE /\ pc' = "select"
                /\ UNCHANGED <<retErr, outcome>>
    /\ UNCHANGED <<pvars, arvars, goos, version, release, assetURL, resp, updatePath,
                   deferred, fs, fmode, fsAtCall, ops, cleanups, scheduled, requests, apiResp, exits, extractor>>

\* the version comparison of checkAndUpdate
CompareVersions ==
    /\ pc = "compare"
    /\ trace' = Append(trace, "compare")
    /\ LET latestVersion == TrimPrefix(release.tag, VPrefix)
           currentVersion == TrimPrefix(version, VPrefix)
       IN  IF currentVersion = DevLabel
           THEN Return(Nil, "dev")
           ELSE IF latestVersion = currentVersion
           THEN Return(Nil, "latest")
           ELSE /\ pc' = "select"
                /\ UNCHANGED <<retErr, outcome>>
    /\ UNCHANGED <<pvars, arvars, goos, version, release, assetURL, resp, updatePath,
                   deferred, fs, fmode, fsAtCall, ops, cleanups, scheduled, requests, apiResp, exits, extractor>>

\* the selection that goes on to the download whatever it found
SelectAsset_NoCheck ==
    /\ pc = "select"
    /\ trace' = Append(trace, "select")
    /\ assetURL' = findAssetURL(release, goos)
    /\ pc' = "dl_exe"
    /\ UNCHANGED <<retErr, outcome>>
    /\ UNCHANGED <<pvars, arvars, goos, version, release, resp, updatePath, deferred, fs, fmode,
                   fsAtCall, ops, cleanups, scheduled, requests, apiResp,
                   exits, extractor>>

\* the asset selection of checkAndUpdate
SelectAsset ==
    /\ pc = "select"
    /\ trace' = Append(trace, "select")
    /\ assetURL' = findAssetURL(release, goos)
    /\ IF assetURL' = NoURL
       THEN Return(<<E("no suitable binary found")>>, "failed")
       ELSE /\ pc' = "dl_exe"
            /\ UNCHANGED <<retErr, outcome>>
    /\ UNCHANGED <<pvars, arvars, goos, version, release, resp, updatePath, deferred, fs, fmode,
                   fsAtCall, ops, cleanups, scheduled, requests, apiResp, exits, extractor>>

(***************************************************************************)
(* downloadAndInstall                                                      *)
(***************************************************************************)
\* downloadAndInstall returns e: to its deferred calls if it has any
Fail(e) ==
    /\ retErr' = e
    /\ pc' = IF deferred = << >> THEN "cu_return" ELSE "dl_defer"

HTTPStatuses == {200, 404}

\* exePath, err := osExecutable()
DlExecutable ==
    /\ pc = "dl_exe"
    /\ \/ Fail(<<E("executable")>>)
       \/ /\ pc' = "dl_temp"
          /\ UNCHANGED retErr
    /\ UNCHANGED <<pvars, arvars, goos, version, release, assetURL, resp, updatePath,
                   deferred, fs, fmode, fsAtCall, ops, cleanups, scheduled, requests, apiResp, exits, extractor,
                   trace, outcome>>

\* tempFile, err := osCreateTemp(...); defer os.Remove(tempFile.Name())
DlCreateTemp ==
    /\ pc = "dl_temp"
    /\ \/ /\ Fail(<<E("create temp")>>)
          /\ UNCHANGED <<fs, fmode, deferred>>
       \/ /\ fs' = [fs EXCEPT ![TempPath] = "empty"]
          /\ fmode' = [fmode EXCEPT ![TempPath] = "0600"]
          /\ deferred' = <<TempPath>>
          /\ pc' = "dl_get"
          /\ UNCHANGED retErr
    /\ UNCHANGED <<pvars, arvars, goos, version, release, assetURL, resp, updatePath,
                   fsAtCall, ops, cleanups, scheduled, requests, apiResp, exits, extractor, trace, outcome>>

\* resp, err := httpClient.Get(url): only a transport failure is an error
DlGet ==
    /\ pc = "dl_get"
    /\ trace' = Append(trace, "download")
    /\ \/ /\ Fail(<<E("transport")>>)
          /\ UNCHANGED resp
       \/ /\ resp' \in [status : HTTPStatuses, body : Bodies]
          /\ pc' = "dl_copy"
          /\ UNCHANGED retErr
    /\ UNCHANGED <<pvars, arvars, goos, version, release, assetURL, updatePath, deferred, fs, fmode,
                   fsAtCall, ops, cleanups, scheduled, requests, apiResp, exits, extractor, outcome>>

\* _, err = ioCopy(tempFile, resp.Body); tempFile.Close()
DlCopy ==
    /\ pc = "dl_copy"
    /\ \/ /\ fs' = [fs EXCEPT ![TempPath] = "partial"]
          /\ Fail(<<E("copy")>>)
       \/ /\ fs' = [fs EXCEPT ![TempPath] = resp.body]
          /\ pc' = "dl_extract"
          /\ UNCHANGED retErr
    /\ UNCHANGED <<pvars, arvars, goos, version, release, assetURL, resp, updatePath,
                   deferred, fmode, fsAtCall, ops, cleanups, scheduled, requests, apiResp, exits,
                   extractor, trace, outcome>>

\* the zip test with strings.Contains in place of strings.HasSuffix
IsZipURL_Contains(url) == Contains(url, <<".zip">>)

IsZipURL(url) == HasSuffix(url, <<".zip">>)
IsTarGzURL(url) == ~IsZipURL(url) /\ HasSuffix(url, <<".tar", ".gz">>)

\* an extraction error that is recorded but does not end the call
ExtractFailed_Continue(cause) ==
    /\ retErr' = Wrap("failed to extract archive", cause)
    /\ pc' = "rx_start"
    /\ updatePath' = TempPath
    /\ UNCHANGED deferred

\* the error branch after the extraction
ExtractFailed(cause) ==
    /\ Fail(Wrap("failed to extract archive", cause))
    /\ UNCHANGED <<updatePath, deferred>>

\* updatePath is the extracted file; its removal is deferred
Extracted ==
    /\ updatePath' = ExtractPath
    /\ deferred' = Append(deferred, ExtractPath)
    /\ pc' = "rx_start"
    /\ UNCHANGED retErr

\* updatePath, err = extractZip(tempFile.Name())
ExtractZip ==
    /\ pc = "dl_extract"
    /\ extractor' = "zip"
    /\ IsZipURL(assetURL)
    /\ trace' = Append(trace, "extract")
    /\ \/ \* zip.OpenReader fails
          /\ fs[TempPath] \notin {"zipWith", "zipWithout"}
          /\ ExtractFailed(<<E("open archive")>>)
          /\ UNCHANGED <<fs, fmode>>
       \/ \* no entry name contains "secret_manager"
          /\ fs[TempPath] = "zipWithout"
          /\ ExtractFailed(<<E("executable not found in archive")>>)
          /\ UNCHANGED <<fs, fmode>>
       \/ \* zipFileOpen fails
          /\ fs[TempPath] = "zipWith"
          /\ ExtractFailed(<<E("open entry")>>)
          /\ UNCHANGED <<fs, fmode>>
       \/ \* osCreate fails
          /\ fs[TempPath] = "zipWith"
          /\ ExtractFailed(<<E("create")>>)
          /\ UNCHANGED <<fs, fmode>>
       \/ \* ioCopy fails after the output file was created
          /\ fs[TempPath] = "zipWith"
          /\ fs' = [fs EXCEPT ![ExtractPath] = "partial"]
          /\ fmode' = [fmode EXCEPT ![ExtractPath] = "0666"]
          /\ ExtractFailed(<<E("copy")>>)
       \/ /\ fs[TempPath] = "zipWith"
          /\ fs' = [fs EXCEPT ![ExtractPath] = "newexe"]
          /\ fmode' = [fmode EXCEPT ![ExtractPath] = "0666"]
          /\ Extracted
    /\ UNCHANGED <<pvars, arvars, goos, version, release, assetURL, resp, fsAtCall, ops,
                   cleanups, scheduled, requests, apiResp, exits, outcome>>

\* updatePath, err = extractTarGz(tempFile.Name())
ExtractTarGz ==
    /\ pc = "dl_extract"
    /\ extractor' = "tgz"
    /\ IsTarGzURL(assetURL)
    /\ trace' = Append(trace, "extract")
    /\ \/ \* gzip.NewReader or tr.Next fails
          /\ fs[TempPath] \notin {"tgzWith", "tgzWithout"}
          /\ ExtractFailed(<<E("open archive")>>)
          /\ UNCHANGED <<fs, fmode>>
       \/ \* no entry name contains "secret_manager"
          /\ fs[TempPath] = "tgzWithout"
          /\ ExtractFailed(<<E("executable not found in archive")>>)
          /\ UNCHANGED <<fs, fmode>>
       \/ \* osCreate fails
          /\ fs[TempPath] = "tgzWith"
          /\ ExtractFailed(<<E("create")>>)
          /\ UNCHANGED <<fs, fmode>>
       \/ \* ioCopy fails after the output file was created
          /\ fs[TempPath] = "tgzWith"
          /\ fs' = [fs EXCEPT ![ExtractPath] = "partial"]
          /\ fmode' = [fmode EXCEPT ![ExtractPath] = "0666"]
          /\ ExtractFailed(<<E("copy")>>)
       \/ /\ fs[TempPath] = "tgzWith"
          /\ fs' = [fs EXCEPT ![ExtractPath] = "newexe"]
          /\ \E ok \in BOOLEAN :
                \* osChmod(extractPath, 0755) off Windows, result dropped
                /\ ok => ~IsWindows(goos)
                /\ fmode' = [fmode EXCEPT ![ExtractPath] =
                                 IF ok THEN "0755" ELSE "0666"]
          /\ Extracted
    /\ UNCHANGED <<pvars, arvars, goos, version, release, assetURL, resp, fsAtCall, ops,
                   cleanups, scheduled, requests, apiResp, exits, outcome>>

\* updatePath = tempFile.Name()
UseDownload ==
    /\ pc = "dl_extract"
    /\ extractor' = "raw"
    /\ ~IsZipURL(assetURL)
    /\ ~IsTarGzURL(assetURL)
    /\ updatePath' = TempPath
    /\ pc' = "rx_start"
    /\ UNCHANGED <<pvars, arvars, goos, version, release, assetURL, resp, deferred, fs, fmode,
                   fsAtCall, ops, cleanups, scheduled, requests, apiResp, exits, trace, retErr,
                   outcome>>

\* the deferred os.Remove calls, last registered first
RECURSIVE RunDeferred(_, _)
RunDeferred(f, d) ==
    IF d = << >> THEN f
    ELSE RunDeferred(RemoveFile(f, d[Len(d)]), SubSeq(d, 1, Len(d) - 1))

DlDefer ==
    /\ pc = "dl_defer"
    /\ fs' = RunDeferred(fs, deferred)
    /\ fmode' = RunDeferred(fmode, deferred)
    /\ deferred' = << >>
    /\ pc' = "cu_return"
    /\ UNCHANGED <<pvars, arvars, goos, version, release, assetURL, resp, updatePath,
                   fsAtCall, ops, cleanups, scheduled, requests, apiResp, exits, extractor, trace, retErr,
                   outcome>>

\* checkAndUpdate after downloadAndInstallFunc returned
CheckAndUpdateReturn ==
    /\ pc = "cu_return"
    /\ IF retErr # Nil
       THEN Return(Wrap("failed to install update", retErr), "failed")
       ELSE Return(Nil, "updated")
    /\ UNCHANGED <<pvars, arvars, goos, version, release, assetURL, resp, updatePath,
                   deferred, fs, fmode, fsAtCall, ops, cleanups, scheduled, requests, apiResp, exits, extractor,
                   trace>>

(***************************************************************************)
(* replaceExecutable(currentPath, newPath), called with                    *)
(* (CurrentPath, updatePath)                                               *)
(***************************************************************************)
Op(kind, src, dst, ok) == [op |-> kind, src |-> src, dst |-> dst, ok |-> ok]

\* replaceExecutable returns e to downloadAndInstall, which returns it as is
RxReturn(e) ==
    /\ retErr' = e
    /\ pc' = "dl_defer"

\* entry and platform branch
RxStart ==
    /\ pc = "rx_start"
    /\ trace' = Append(trace, "replace")
    /\ fsAtCall' = fs
    /\ ops' = << >>
    /\ pc' = IF IsWindows(goos) THEN "rx_remove" ELSE "rx_unix"
    /\ UNCHANGED <<pvars, arvars, goos, version, release, assetURL, resp, updatePath,
                   deferred, fs, fmode, cleanups, scheduled, requests, apiResp, exits, extractor, retErr, outcome>>

\* the removal of a stale backup whose failure ends the call
RxRemoveStale_AbortOnFailure ==
    /\ pc = "rx_remove"
    /\ \E ok \in BOOLEAN :
          /\ ok => CanRemove(fs, BackupPath(CurrentPath))
          /\ fs' = IF ok THEN RemoveFile(fs, BackupPath(CurrentPath)) ELSE fs
          /\ fmode' = IF ok THEN RemoveFile(fmode, BackupPath(CurrentPath)) ELSE fmode
          /\ ops' = Append(ops, Op("remove", BackupPath(CurrentPath), NoPath, ok))
          /\ IF ok
             THEN pc' = "rx_backup" /\ UNCHANGED retErr
             ELSE RxReturn(Wrap("failed to remove stale backup", <<E("remove")>>))
    /\ UNCHANGED <<pvars, arvars, goos, version, release, assetURL, resp, updatePath,
                   deferred, fsAtCall, cleanups, scheduled, requests, apiResp, exits, extractor, trace,
                   outcome>>

\* osRemove(backupPath), result ignored
RxRemoveStale ==
    /\ pc = "rx_remove"
    /\ \E ok \in BOOLEAN :
          /\ ok => CanRemove(fs, BackupPath(CurrentPath))
          /\ fs' = IF ok THEN RemoveFile(fs, BackupPath(CurrentPath)) ELSE fs
          /\ fmode' = IF ok THEN RemoveFile(fmode, BackupPath(CurrentPath)) ELSE fmode
          /\ ops' = Append(ops, Op("remove", BackupPath(CurrentPath), NoPath, ok))
    /\ pc' = "rx_backup"
    /\ UNCHANGED <<pvars, arvars, goos, version, release, assetURL, resp, updatePath,
                   deferred, fsAtCall, cleanups, scheduled, requests, apiResp, exits, extractor, trace,
                   retErr, outcome>>

\* the backup rename whose failure does not end the call
RxBackup_NoAbort ==
    /\ pc = "rx_backup"
    /\ \E ok \in BOOLEAN :
          /\ ok => CanRename(fs, CurrentPath, BackupPath(CurrentPath))
          /\ ops' = Append(ops, Op("rename", CurrentPath, BackupPath(CurrentPath), ok))
          /\ fs' = IF ok THEN RenameFile(fs, CurrentPath, BackupPath(CurrentPath))
                   ELSE fs
          /\ fmode' = IF ok THEN RenameFile(fmode, CurrentPath, BackupPath(CurrentPath))
                      ELSE fmode
    /\ pc' = "rx_install"
    /\ UNCHANGED <<pvars, arvars, goos, version, release, assetURL, resp, updatePath,
                   deferred, fsAtCall, cleanups, scheduled, requests, apiResp, exits, extractor, trace,
                   retErr, outcome>>

\* the backup step that deletes the current executable instead of moving it
RxBackup_Delete ==
    /\ pc = "rx_backup"
    /\ \E ok \in BOOLEAN :
          /\ ok => CanRename(fs, CurrentPath, BackupPath(CurrentPath))
          /\ ops' = Append(ops, Op("rename", CurrentPath, BackupPath(CurrentPath), ok))
          /\ IF ok
             THEN /\ fs' = RemoveFile(fs, CurrentPath)
                  /\ fmode' = RemoveFile(fmode, CurrentPath)
                  /\ pc' = "rx_install"
                  /\ UNCHANGED retErr
             ELSE /\ RxReturn(Wrap("failed to backup current executable", <<E("rename")>>))
                  /\ UNCHANGED <<fs, fmode>>
    /\ UNCHANGED <<pvars, arvars, goos, version, release, assetURL, resp, updatePath,
                   deferred, fsAtCall, cleanups, scheduled, requests, apiResp, exits, extractor, trace,
                   outcome>>

\* osRename(currentPath, backupPath)
RxBackup ==
    /\ pc = "rx_backup"
    /\ \E ok \in BOOLEAN :
          /\ ok => CanRename(fs, CurrentPath, BackupPath(CurrentPath))
          /\ ops' = Append(ops, Op("rename", CurrentPath, BackupPath(CurrentPath), ok))
          /\ IF ok
             THEN /\ fs' = RenameFile(fs, CurrentPath, BackupPath(CurrentPath))
                  /\ fmode' = RenameFile(fmode, CurrentPath, BackupPath(CurrentPath))
                  /\ pc' = "rx_install"
                  /\ UNCHANGED retErr
             ELSE /\ RxReturn(Wrap("failed to backup current executable", <<E("rename")>>))
                  /\ UNCHANGED <<fs, fmode>>
    /\ UNCHANGED <<pvars, arvars, goos, version, release, assetURL, resp, updatePath,
                   deferred, fsAtCall, cleanups, scheduled, requests, apiResp, exits, extractor, trace,
                   outcome>>

\* the install rename that starts no delayed deletion on success
RxInstall_NoCleanup ==
    /\ pc = "rx_install"
    /\ \E ok \in BOOLEAN :
          /\ ok => CanRename(fs, updatePath, CurrentPath)
          /\ ops' = Append(ops, Op("rename", updatePath, CurrentPath, ok))
          /\ IF ok
             THEN /\ fs' = RenameFile(fs, updatePath, CurrentPath)
                  /\ fmode' = RenameFile(fmode, updatePath, CurrentPath)
                  /\ RxReturn(Nil)
             ELSE /\ pc' = "rx_restore"
                  /\ UNCHANGED <<fs, fmode, retErr>>
    /\ UNCHANGED <<pvars, arvars, goos, version, release, assetURL, resp, updatePath,
                   deferred, fsAtCall, cleanups, scheduled, requests, apiResp, exits, extractor, trace,
                   outcome>>

\* osRename(newPath, currentPath) on Windows; on success the delayed
\* deletion of the backup is started and nil is returned
RxInstall ==
    /\ pc = "rx_install"
    /\ \E ok \in BOOLEAN :
          /\ ok => CanRename(fs, updatePath, CurrentPath)
          /\ ops' = Append(ops, Op("rename", updatePath, CurrentPath, ok))
          /\ IF ok
             THEN /\ fs' = RenameFile(fs, updatePath, CurrentPath)
                  /\ fmode' = RenameFile(fmode, updatePath, CurrentPath)
                  /\ cleanups' = cleanups + 1
                  /\ scheduled' = scheduled + 1
                  /\ RxReturn(Nil)
             ELSE /\ pc' = "rx_restore"
                  /\ UNCHANGED <<fs, fmode, cleanups, scheduled, retErr>>
    /\ UNCHANGED <<pvars, arvars, goos, version, release, assetURL, resp, updatePath,
                   deferred, fsAtCall, requests, apiResp, exits, extractor, trace, outcome>>

\* the install error returned without the restoring rename
RxRestore_Skipped ==
    /\ pc = "rx_restore"
    /\ RxReturn(Wrap("failed to install new executable", <<E("rename")>>))
    /\ UNCHANGED <<pvars, arvars, goos, version, release, assetURL, resp, updatePath,
                   deferred, fs, fmode, fsAtCall, ops, cleanups, scheduled, requests, apiResp, exits, extractor,
                   trace, outcome>>

\* osRename(backupPath, currentPath), result ignored, then the install error
RxRestore ==
    /\ pc = "rx_restore"
    /\ \E ok \in BOOLEAN :
          /\ ok => CanRename(fs, BackupPath(CurrentPath), CurrentPath)
          /\ ops' = Append(ops, Op("rename", BackupPath(CurrentPath), CurrentPath, ok))
          /\ fs' = IF ok THEN RenameFile(fs, BackupPath(CurrentPath), CurrentPath)
                   ELSE fs
          /\ fmode' = IF ok THEN RenameFile(fmode, BackupPath(CurrentPath), CurrentPath)
                      ELSE fmode
    /\ RxReturn(Wrap("failed to install new executable", <<E("rename")>>))
    /\ UNCHANGED <<pvars, arvars, goos, version, release, assetURL, resp, updatePath,
                   deferred, fsAtCall, cleanups, scheduled, requests, apiResp, exits, extractor, trace,
                   outcome>>

\* the Unix replace that removes the current executable before the rename
RxUnix_RemoveFirst ==
    /\ pc = "rx_unix"
    /\ \E ok \in BOOLEAN :
          /\ ok => CanRename(fs, updatePath, CurrentPath)
          /\ ops' = Append(ops, Op("rename", updatePath, CurrentPath, ok))
          /\ IF ok
             THEN /\ fs' = RenameFile(fs, updatePath, CurrentPath)
                  /\ fmode' = RenameFile(fmode, updatePath, CurrentPath)
                  /\ RxReturn(Nil)
             ELSE /\ RxReturn(Wrap("failed to install new executable", <<E("rename")>>))
                  /\ fs' = RemoveFile(fs, CurrentPath)
                  /\ fmode' = RemoveFile(fmode, CurrentPath)
    /\ UNCHANGED <<pvars, arvars, goos, version, release, assetURL, resp, updatePath,
                   deferred, fsAtCall, cleanups, scheduled, requests, apiResp,
                   exits, extractor, trace, outcome>>

\* osRename(newPath, currentPath) on Unix-like systems
RxUnix ==
    /\ pc = "rx_unix"
    /\ \E ok \in BOOLEAN :
          /\ ok => CanRename(fs, updatePath, CurrentPath)
          /\ ops' = Append(ops, Op("rename", updatePath, CurrentPath, ok))
          /\ IF ok
             THEN /\ fs' = RenameFile(fs, updatePath, CurrentPath)
                  /\ fmode' = RenameFile(fmode, updatePath, CurrentPath)
                  /\ RxReturn(Nil)
             ELSE /\ RxReturn(Wrap("failed to install new executable", <<E("rename")>>))
                  /\ UNCHANGED <<fs, fmode>>
    /\ UNCHANGED <<pvars, arvars, goos, version, release, assetURL, resp, updatePath,
                   deferred, fsAtCall, cleanups, scheduled, requests, apiResp, exits, extractor, trace,
                   outcome>>

\* a cleanup whose failed deletion is handed to the main flow as its error
CleanupTask_Reports ==
    /\ pc # "exited"
    /\ cleanups > 0
    /\ cleanups' = cleanups - 1
    /\ \E ok \in BOOLEAN :
          /\ ok => CanRemove(fs, BackupPath(CurrentPath))
          /\ fs' = IF ok THEN RemoveFile(fs, BackupPath(CurrentPath)) ELSE fs
          /\ fmode' = IF ok THEN RemoveFile(fmode, BackupPath(CurrentPath)) ELSE fmode
          /\ retErr' = IF ok THEN retErr ELSE <<E("cleanup")>>
    /\ UNCHANGED <<pvars, arvars, goos, version, pc, release, assetURL, resp, updatePath,
                   deferred, fsAtCall, ops, scheduled, requests, apiResp,
                   exits, extractor, trace, outcome>>

\* the goroutine: time.Sleep(5 * time.Second); osRemove(backupPath); it
\* runs while the process lives
CleanupTask ==
    /\ pc # "exited"
    /\ cleanups > 0
    /\ cleanups' = cleanups - 1
    /\ \E ok \in BOOLEAN :
          /\ ok => CanRemove(fs, BackupPath(CurrentPath))
          /\ fs' = IF ok THEN RemoveFile(fs, BackupPath(CurrentPath)) ELSE fs
          /\ fmode' = IF ok THEN RemoveFile(fmode, BackupPath(CurrentPath)) ELSE fmode
    /\ UNCHANGED <<pvars, arvars, goos, version, pc, release, assetURL, resp, updatePath,
                   deferred, fsAtCall, ops, scheduled, requests, apiResp, exits, extractor, trace, retErr,
                   outcome>>

(***************************************************************************)
(* main with the --update flag, exitFunc being os.Exit                     *)
(***************************************************************************)
\* main that exits only for an error and otherwise goes on to the provisioning
MainExit_FallsThrough ==
    /\ pc = "done"
    /\ IF retErr # Nil
       THEN exits' = Append(exits, 1) /\ pc' = "exited"
       ELSE pc' = "m_chdir" /\ UNCHANGED exits
    /\ UNCHANGED <<pvars, arvars, goos, version, release, assetURL, resp,
                   updatePath, deferred, fs, fmode, fsAtCall, ops, cleanups,
                   scheduled, requests, apiResp, extractor, trace, retErr,
                   outcome>>

\* if err := checkAndUpdateFunc(); err != nil { exitFunc(1) }; exitFunc(0):
\* with os.Exit the process ends with the first call and its goroutines end
\* with it; an exitFunc that returns lets main make the second call and go on
MainExit ==
    /\ pc = "done"
    /\ IF exitFunc = "os.Exit"
       THEN /\ exits' = Append(exits, IF retErr # Nil THEN 1 ELSE 0)
            /\ pc' = "exited"
       ELSE /\ exits' = exits \o (IF retErr # Nil THEN <<1, 0>> ELSE <<0>>)
            /\ pc' = "m_exedir"
    /\ UNCHANGED <<pvars, arvars, goos, version, release, assetURL, resp, updatePath,
                   deferred, fs, fmode, fsAtCall, ops, cleanups, scheduled, requests,
                   apiResp, extractor, trace, retErr, outcome>>

(***************************************************************************)
(* Specification                                                           *)
(***************************************************************************)
Next ==
    \/ GetLatestRelease
    \/ CompareVersions
    \/ SelectAsset
    \/ DlExecutable
    \/ DlCreateTemp
    \/ DlGet
    \/ DlCopy
    \/ ExtractZip
    \/ ExtractTarGz
    \/ UseDownload
    \/ DlDefer
    \/ CheckAndUpdateReturn
    \/ RxStart
    \/ RxRemoveStale
    \/ RxBackup
    \/ RxInstall
    \/ RxRestore
    \/ RxUnix
    \/ CleanupTask
    \/ MainExit

Spec == Init /\ [][Next]_vars

\* a process that is not at its end takes its next step
SpecLive == Spec /\ WF_vars(Next)

(***************************************************************************)
(* extractZip and extractTarGz over the entries of an archive              *)
(***************************************************************************)
MaxEntries == 2

\* the substring both extractions look for
Identifier == <<"secret_manager">>

\* entry names, "/" separating the components
EntryNames ==
    { <<"secret_manager">>,
      <<"bin", "/", "secret_manager", ".exe">>,
      <<"secret_manager", "/", "README">>,
      <<"README">>,
      <<"..", "/", "secret_manager">> }

EntryContents == {"c1", "c2"}

Entries == [name : EntryNames, content : EntryContents]

Archives == UNION { [1..n -> Entries] : n \in 0..MaxEntries }

\* filepath.Base: what follows the last separator
Base(name) ==
    LET seps == {i \in 1..Len(name) : name[i] = "/"}
        last == CHOOSE i \in seps : \A j \in seps : j <= i
    IN  IF seps = {} THEN name ELSE SubSeq(name, last + 1, Len(name))

\* the components of a name
RECURSIVE Split(_)
Split(name) ==
    IF name = << >> THEN << << >> >>
    ELSE LET rest == Split(Tail(name))
         IN  IF Head(name) = "/" THEN << << >> >> \o rest
             ELSE << <<Head(name)>> \o Head(rest) >> \o Tail(rest)

\* filepath.Clean on a rooted path: "." and empty components vanish, ".."
\* removes the component before it
RECURSIVE Clean(_, _)
Clean(path, comps) ==
    IF comps = << >> THEN path
    ELSE LET c == Head(comps)
             next == IF c = << >> \/ c = <<".">> THEN path
                     ELSE IF c = <<"..">>
                          THEN SubSeq(path, 1, Len(path) - 1)
                          ELSE Append(path, c)
         IN  Clean(next, Tail(comps))

\* os.TempDir() as a sequence of components, and filepath.Join
TempDir == << <<"tmp">> >>

Join(dir, name) == Clean(dir, Split(name))

\* extractPath of the two extractions
ZipExtractPath(entry) == Join(TempDir, entry.name)

TarExtractPath(entry) == Join(TempDir, Base(entry.name))

ArExtractPath(entry) ==
    IF arFormat = "zip" THEN ZipExtractPath(entry) ELSE TarExtractPath(entry)

\* the extraction is tried on its own, on every archive
InitExtract ==
    /\ goos \in Platforms
    /\ version = DevLabel
    /\ pc = "start"
    /\ release = NoRelease
    /\ assetURL = NoURL
    /\ resp = NoResp
    /\ updatePath = NoPath
    /\ deferred = << >>
    /\ fs = [p \in Paths |-> IF p = CurrentPath THEN "orig" ELSE Absent]
    /\ fmode = ModesAtStart(fs)
    /\ fsAtCall = fs
    /\ ops = << >>
    /\ cleanups = 0
    /\ scheduled = 0
    /\ requests = 0
    /\ apiResp = NoApiResp
    /\ exits = << >>
    /\ extractor = "none"
    /\ trace = << >>
    /\ retErr = Nil
    /\ outcome = "none"
    /\ arFormat \in {"zip", "tgz"}
    /\ archive \in Archives
    /\ arPc = "open"
    /\ arIdx = 0
    /\ arOut = NoOut
    /\ arFault = FALSE
    /\ chmods = << >>
    /\ arRet = NoRet
    /\ flags = [version |-> FALSE, update |-> FALSE]
    /\ exitFunc = OsExit
    /\ ProvIdle

flowvars == <<goos, version, pc, release, assetURL, resp, updatePath, deferred,
              fs, fmode, fsAtCall, ops, cleanups, scheduled, requests, apiResp,
              exits, extractor, trace, retErr, outcome, pvars>>

\* return "", err
ArFail(e) ==
    /\ arRet' = [path |-> << >>, err |-> e]
    /\ arPc' = "ret"

\* return extractPath, nil
ArReturnPath ==
    /\ arRet' = [path |-> arOut.path, err |-> Nil]
    /\ arPc' = "ret"

\* zip.OpenReader, or os.Open and gzip.NewReader
ArOpen ==
    /\ arPc = "open"
    /\ \/ /\ ArFail(<<E("open archive")>>)
          /\ arFault' = TRUE
          /\ UNCHANGED arIdx
       \/ /\ arPc' = "loop"
          /\ arIdx' = 1
          /\ UNCHANGED <<arFault, arRet>>
    /\ UNCHANGED <<arFormat, archive, arOut, chmods, flowvars>>

\* the test both loops apply to an entry
ArMatches(entry) == Contains(entry.name, Identifier)

\* the loop is past the last entry
ArNotFound ==
    /\ arPc = "loop"
    /\ arIdx > Len(archive)
    /\ ArFail(<<E("executable not found in archive")>>)
    /\ UNCHANGED <<arFormat, archive, arIdx, arOut, arFault, chmods, flowvars>>

\* tr.Next returns an error other than io.EOF
ArNextFails ==
    /\ arPc = "loop"
    /\ arFormat = "tgz"
    /\ ArFail(<<E("read header")>>)
    /\ arFault' = TRUE
    /\ UNCHANGED <<arFormat, archive, arIdx, arOut, chmods, flowvars>>

\* an entry that fails the test is passed over
ArSkip ==
    /\ arPc = "loop"
    /\ arIdx <= Len(archive)
    /\ ~ArMatches(archive[arIdx])
    /\ arIdx' = arIdx + 1
    /\ UNCHANGED <<arFormat, archive, arPc, arOut, arFault, chmods, arRet,
                   flowvars>>

\* the first entry that passes the test is the one extracted
ArMatch ==
    /\ arPc = "loop"
    /\ arIdx <= Len(archive)
    /\ ArMatches(archive[arIdx])
    /\ arPc' = IF arFormat = "zip" THEN "open_entry" ELSE "create"
    /\ UNCHANGED <<arFormat, archive, arIdx, arOut, arFault, chmods, arRet,
                   flowvars>>

\* rc, err := zipFileOpen(file)
ArOpenEntry ==
    /\ arPc = "open_entry"
    /\ \/ /\ ArFail(<<E("open entry")>>)
          /\ arFault' = TRUE
       \/ /\ arPc' = "create"
          /\ UNCHANGED <<arFault, arRet>>
    /\ UNCHANGED <<arFormat, archive, arIdx, arOut, chmods, flowvars>>

\* out, err := osCreate(extractPath)
ArCreate ==
    /\ arPc = "create"
    /\ \/ /\ ArFail(<<E("create")>>)
          /\ arFault' = TRUE
          /\ UNCHANGED arOut
       \/ /\ arOut' = [path |-> ArExtractPath(archive[arIdx]),
                       content |-> "empty", mode |-> "0666"]
          /\ arPc' = "copy"
          /\ UNCHANGED <<arFault, arRet>>
    /\ UNCHANGED <<arFormat, archive, arIdx, chmods, flowvars>>

\* _, err = ioCopy(out, rc), and the return of extractZip after it
ArCopy ==
    /\ arPc = "copy"
    /\ \/ /\ arOut' = [arOut EXCEPT !.content = "partial"]
          /\ ArFail(<<E("copy")>>)
          /\ arFault' = TRUE
       \/ /\ arOut' = [arOut EXCEPT !.content = archive[arIdx].content]
          /\ IF arFormat = "tgz" /\ ~IsWindows(goos)
             THEN arPc' = "chmod" /\ UNCHANGED arRet
             ELSE ArReturnPath
          /\ UNCHANGED arFault
    /\ UNCHANGED <<arFormat, archive, arIdx, chmods, flowvars>>

\* osChmod(extractPath, 0755), its result dropped, and the return of
\* extractTarGz
ArChmod ==
    /\ arPc = "chmod"
    /\ chmods' = Append(chmods, arOut.path)
    /\ \E ok \in BOOLEAN :
          arOut' = IF ok THEN [arOut EXCEPT !.mode = "0755"] ELSE arOut
    /\ ArReturnPath
    /\ UNCHANGED <<arFormat, archive, arIdx, arFault, flowvars>>

NextExtract ==
    \/ ArOpen
    \/ ArNotFound
    \/ ArNextFails
    \/ ArSkip
    \/ ArMatch
    \/ ArOpenEntry
    \/ ArCreate
    \/ ArCopy
    \/ ArChmod

SpecExtract == InitExtract /\ [][NextExtract]_vars

(***************************************************************************)
(* main: flags, and the provisioning of symlinks                           *)
(***************************************************************************)
MaxDirs == 2
MaxFiles == 2
MaxTargets == 2
MaxCalls == 2

\* the sequences of at most n elements picked from seq in its order
Picks(seq, n) ==
    LET idx == UNION { [1..k -> 1..Len(seq)] : k \in 0..n }
        inc == {f \in idx : \A i, j \in 1..Len(f) : i < j => f[i] < f[j]}
    IN  { [i \in 1..Len(f) |-> seq[f[i]]] : f \in inc }

\* paths filepath.Walk can report for directories with "secret" in the
\* name, in lexical order
SecretDirNames == << <<"d1">>, <<"d2">>, <<"d3">> >>

\* findSecretDirs reports every directory once, in the order of the walk
DirLists == Picks(SecretDirNames, MaxDirs)

ConfigSuffix == <<".symlink", ".json">>

\* entries os.ReadDir can report, sorted by name; source tells whether
\* os.Stat finds the file the config is named after
DirEntries ==
    << [name |-> <<"a", ".json">>, isDir |-> FALSE, source |-> TRUE],
       [name |-> <<"a", ".symlink", ".json">>, isDir |-> FALSE, source |-> TRUE],
       [name |-> <<"b", ".symlink", ".json">>, isDir |-> FALSE, source |-> FALSE],
       [name |-> <<"c", ".symlink", ".json">>, isDir |-> TRUE, source |-> TRUE] >>

FileLists == Picks(DirEntries, MaxFiles)

TargetLists == UNION { [1..n -> TargetPaths] : n \in 0..MaxTargets }

\* strings.TrimSuffix
TrimSuffix(s, suffix) ==
    IF HasSuffix(s, suffix) THEN SubSeq(s, 1, Len(s) - Len(suffix)) ELSE s

\* filepath.Dir of a path with a separator in it
Dir(path) ==
    LET seps == {i \in 1..Len(path) : path[i] = "/"}
        last == CHOOSE i \in seps : \A j \in seps : j <= i
    IN  IF seps = {} THEN <<".">> ELSE SubSeq(path, 1, last - 1)

\* filepath.Join(secretDir, name)
JoinDir(dir, name) == dir \o <<"/">> \o name

\* the state of checkAndUpdate, which the provisioning leaves alone
updvars == <<goos, version, release, assetURL, resp, updatePath, deferred,
             fs, fmode, fsAtCall, ops, cleanups, scheduled, requests, apiResp,
             extractor, trace, retErr, outcome>>

\* main is entered with some flags; a run without --update reads neither the
\* version label nor the platform, which are held fixed for it
MainEntry(handlers) ==
    /\ flags \in [version : BOOLEAN, update : BOOLEAN]
    /\ exitFunc \in handlers
    /\ goos \in Platforms
    /\ version \in Labels
    /\ (flags.version \/ ~flags.update) => (goos = "linux" /\ version = DevLabel)
    /\ pc = "main"
    /\ release = NoRelease
    /\ assetURL = NoURL
    /\ resp = NoResp
    /\ updatePath = NoPath
    /\ deferred = << >>
    /\ \E old \in {Absent, "stale"} :
          /\ (flags.version \/ ~flags.update) => old = Absent
          /\ fs = [p \in Paths |->
                     IF p = CurrentPath THEN "orig"
                     ELSE IF p = BackupPath(CurrentPath) THEN old
                     ELSE Absent]
    /\ fmode = ModesAtStart(fs)
    /\ fsAtCall = fs
    /\ ops = << >>
    /\ cleanups = 0
    /\ scheduled = 0
    /\ requests = 0
    /\ apiResp = NoApiResp
    /\ exits = << >>
    /\ extractor = "none"
    /\ trace = << >>
    /\ retErr = Nil
    /\ outcome = "none"
    /\ ArIdle
    /\ ProvIdle

InitMain == MainEntry({OsExit})

\* main as the tests run it, with the returning function in exitFunc
InitMainTest ==
    /\ MainEntry({TestExit})
    /\ goos = "linux"
    /\ version = DevLabel
    /\ fs[BackupPath(CurrentPath)] = Absent

\* exitFunc(code), exitFunc being os.Exit
Exit(code) ==
    /\ exits' = Append(exits, code)
    /\ pc' = "exited"

\* exitFunc(codes[1]); when the call returns, main goes on: codes holds the
\* exitFunc calls it makes up to its step next
ExitFunc(codes, next) ==
    IF exitFunc = OsExit
    THEN Exit(codes[1])
    ELSE /\ exits' = exits \o codes
         /\ pc' = next

\* main is past the --version block
PastVersion == (pc = "main" /\ ~flags.version) \/ pc = "m_flags"

\* if *versionFlag { ...; exitFunc(0) }
MainVersion ==
    /\ pc = "main"
    /\ flags.version
    /\ ExitFunc(<<0>>, "m_flags")
    /\ UNCHANGED <<updvars, arvars, pvars>>

\* if *updateFlag { checkAndUpdateFunc() ... }
MainUpdate ==
    /\ PastVersion
    /\ flags.update
    /\ pc' = "start"
    /\ UNCHANGED <<exits, updvars, arvars, pvars>>

\* exeDir, err := executableDir()
MainExeDir ==
    /\ \/ PastVersion /\ ~flags.update
       \/ pc = "m_exedir"
    /\ \/ ExitFunc(<<1>>, "m_chdir")
       \/ pc' = "m_chdir" /\ UNCHANGED exits
    /\ UNCHANGED <<updvars, arvars, pvars>>

\* exeDir is "" after an exitFunc(1) that returned; os.Chdir("") fails
ExeDirFailed == pc = "m_chdir" /\ exits # << >> /\ exits[Len(exits)] = 1

\* err = os.Chdir(exeDir)
MainChdir ==
    /\ pc = "m_chdir"
    /\ \/ ExitFunc(<<1>>, "m_find")
       \/ /\ ~ExeDirFailed
          /\ pc' = "m_find"
          /\ UNCHANGED exits
    /\ UNCHANGED <<updvars, arvars, pvars>>

\* secretDirs, err := findSecretDirs("."), and the exit when there is none
MainFindDirs ==
    /\ pc = "m_find"
    /\ \/ /\ ExitFunc(<<1, 0>>, "m_loop")
          /\ UNCHANGED secretDirs
       \/ \E dirs \in DirLists :
             /\ secretDirs' = dirs
             /\ IF dirs = << >>
                THEN ExitFunc(<<0>>, "m_loop")
                ELSE pc' = "m_loop" /\ UNCHANGED exits
    /\ UNCHANGED <<updvars, arvars, flags, exitFunc, processed, files, fileIdx, sourcePath,
                   cfgTargets, attempts, results, links, linksAtCall, csOps,
                   csErr, pscErr, psdErr, dirErrs>>

\* for _, secretDir := range secretDirs { err = processSecretDirectory(secretDir)
MainLoop ==
    /\ pc = "m_loop"
    /\ IF Len(processed) < Len(secretDirs)
       THEN /\ processed' = Append(processed, secretDirs[Len(processed) + 1])
            /\ pc' = "psd_read"
       ELSE /\ pc' = "returned"
            /\ UNCHANGED processed
    /\ UNCHANGED <<exits, updvars, arvars, flags, exitFunc, secretDirs, files, fileIdx, sourcePath,
                   cfgTargets, attempts, results, links, linksAtCall, csOps,
                   csErr, pscErr, psdErr, dirErrs>>

\* a loop that ends the process at the first failing directory
MainAfterDir_ExitOnError ==
    /\ pc = "m_after"
    /\ dirErrs' = IF psdErr # Nil
                  THEN Append(dirErrs, processed[Len(processed)])
                  ELSE dirErrs
    /\ psdErr' = Nil
    /\ IF psdErr # Nil THEN Exit(1) ELSE pc' = "m_loop" /\ UNCHANGED exits
    /\ UNCHANGED <<updvars, arvars, flags, exitFunc, secretDirs, processed, files,
                   fileIdx, sourcePath, cfgTargets, attempts, results, links,
                   linksAtCall, csOps, csErr, pscErr>>

\* the error of processSecretDirectory is printed and the loop goes on
MainAfterDir ==
    /\ pc = "m_after"
    /\ dirErrs' = IF psdErr # Nil
                  THEN Append(dirErrs, processed[Len(processed)])
                  ELSE dirErrs
    /\ psdErr' = Nil
    /\ pc' = "m_loop"
    /\ UNCHANGED <<exits, updvars, arvars, flags, exitFunc, secretDirs, processed, files, fileIdx,
                   sourcePath, cfgTargets, attempts, results, links,
                   linksAtCall, csOps, csErr, pscErr>>

(***************************************************************************)
(* processSecretDirectory                                                  *)
(***************************************************************************)
provrest == <<exits, updvars, arvars, flags, exitFunc, secretDirs, processed>>

\* files, err := readDirFunc(secretDir)
PsdReadDir ==
    /\ pc = "psd_read"
    /\ \/ /\ psdErr' = Wrap("failed to read secret directory", <<E("readdir")>>)
          /\ pc' = "m_after"
          /\ UNCHANGED <<files, fileIdx>>
       \/ /\ files' \in FileLists
          /\ fileIdx' = 1
          /\ pc' = "psd_loop"
          /\ UNCHANGED psdErr
    /\ UNCHANGED <<provrest, sourcePath, cfgTargets, attempts, results, links,
                   linksAtCall, csOps, csErr, pscErr, dirErrs>>

\* entries passed over: directories, other names, configs without a source
PsdSkipped(file) ==
    \/ file.isDir
    \/ ~HasSuffix(file.name, ConfigSuffix)
    \/ ~file.source

PsdSkip ==
    /\ pc = "psd_loop"
    /\ fileIdx <= Len(files)
    /\ PsdSkipped(files[fileIdx])
    /\ fileIdx' = fileIdx + 1
    /\ UNCHANGED <<pc, files, provrest, sourcePath, cfgTargets, attempts, results,
                   links, linksAtCall, csOps, csErr, pscErr, psdErr, dirErrs>>

\* err := processSymlinkConfig(sourcePath, configPath)
PsdConfig ==
    /\ pc = "psd_loop"
    /\ fileIdx <= Len(files)
    /\ ~PsdSkipped(files[fileIdx])
    /\ sourcePath' = JoinDir(processed[Len(processed)],
                             TrimSuffix(files[fileIdx].name, ConfigSuffix))
    /\ cfgTargets' = << >>
    /\ attempts' = << >>
    /\ results' = << >>
    /\ pc' = "psc_read"
    /\ UNCHANGED <<provrest, files, fileIdx, links, linksAtCall, csOps, csErr, pscErr,
                   psdErr, dirErrs>>

\* the error of processSymlinkConfig is printed and the loop goes on
PsdAfterConfig ==
    /\ pc = "psd_after"
    /\ fileIdx' = fileIdx + 1
    /\ pscErr' = Nil
    /\ pc' = "psd_loop"
    /\ UNCHANGED <<provrest, files, sourcePath, cfgTargets, attempts, results, links,
                   linksAtCall, csOps, csErr, psdErr, dirErrs>>

\* return nil after the last entry
PsdReturn ==
    /\ pc = "psd_loop"
    /\ fileIdx > Len(files)
    /\ psdErr' = Nil
    /\ pc' = "m_after"
    /\ UNCHANGED <<provrest, files, fileIdx, sourcePath, cfgTargets, attempts, results,
                   links, linksAtCall, csOps, csErr, pscErr, dirErrs>>

(***************************************************************************)
(* processSymlinkConfig                                                    *)
(***************************************************************************)
\* os.ReadFile(configPath) and json.Unmarshal(data, &config)
PscRead ==
    /\ pc = "psc_read"
    /\ \/ /\ pscErr' = Wrap("failed to read config file", <<E("read")>>)
          /\ pc' = "psd_after"
          /\ UNCHANGED cfgTargets
       \/ /\ pscErr' = Wrap("failed to parse JSON", <<E("syntax")>>)
          /\ pc' = "psd_after"
          /\ UNCHANGED cfgTargets
       \/ /\ cfgTargets' \in TargetLists
          /\ pc' = "psc_loop"
          /\ UNCHANGED pscErr
    /\ UNCHANGED <<provrest, files, fileIdx, sourcePath, attempts, results, links,
                   linksAtCall, csOps, csErr, psdErr, dirErrs>>

\* for _, target := range config.Targets { err := createSymlink(...) }, and
\* return nil after the last target
PscLoop ==
    /\ pc = "psc_loop"
    /\ IF Len(attempts) < Len(cfgTargets)
       THEN /\ attempts' = Append(attempts, cfgTargets[Len(attempts) + 1])
            /\ linksAtCall' = links
            /\ csOps' = << >>
            /\ csErr' = Nil
            /\ pc' = "cs_stat"
            /\ UNCHANGED pscErr
       ELSE /\ pscErr' = Nil
            /\ pc' = "psd_after"
            /\ UNCHANGED <<attempts, linksAtCall, csOps, csErr>>
    /\ UNCHANGED <<provrest, files, fileIdx, sourcePath, cfgTargets, results, links,
                   psdErr, dirErrs>>

\* a loop that returns the first error of createSymlink
PscAfterTarget_StopOnError ==
    /\ pc = "psc_after"
    /\ results' = Append(results, csErr)
    /\ IF csErr # Nil
       THEN pscErr' = csErr /\ pc' = "psd_after"
       ELSE pc' = "psc_loop" /\ UNCHANGED pscErr
    /\ UNCHANGED <<provrest, files, fileIdx, sourcePath, cfgTargets, attempts,
                   links, linksAtCall, csOps, csErr, psdErr, dirErrs>>

\* the error of createSymlink is printed and the loop goes on
PscAfterTarget ==
    /\ pc = "psc_after"
    /\ results' = Append(results, csErr)
    /\ pc' = "psc_loop"
    /\ UNCHANGED <<provrest, files, fileIdx, sourcePath, cfgTargets, attempts, links,
                   linksAtCall, csOps, csErr, pscErr, psdErr, dirErrs>>

(***************************************************************************)
(* createSymlink(sourcePath, target)                                       *)
(***************************************************************************)
\* targetPath of the running call
CsTarget == attempts[Len(attempts)]

CsOp(kind, ok) == [op |-> kind, path |-> CsTarget, ok |-> ok]

\* a missing directory reported as an error
CsStat_ReturnsError ==
    /\ pc = "cs_stat"
    /\ IF Dir(CsTarget) \in ExistingDirs
       THEN pc' = "cs_lstat" /\ UNCHANGED csErr
       ELSE /\ pc' = "psc_after"
            /\ csErr' = <<E("target directory does not exist")>>
    /\ UNCHANGED <<provrest, files, fileIdx, sourcePath, cfgTargets, attempts,
                   results, links, linksAtCall, csOps, pscErr, psdErr, dirErrs>>

\* os.Stat(targetDir): a missing directory ends the call with nil
CsStat ==
    /\ pc = "cs_stat"
    /\ pc' = IF Dir(CsTarget) \in ExistingDirs THEN "cs_lstat" ELSE "psc_after"
    /\ UNCHANGED <<provrest, files, fileIdx, sourcePath, cfgTargets, attempts, results,
                   links, linksAtCall, csOps, csErr, pscErr, psdErr, dirErrs>>

\* no look at what the target path holds
CsLstat_NoRemove ==
    /\ pc = "cs_lstat"
    /\ pc' = "cs_symlink"
    /\ UNCHANGED <<provrest, files, fileIdx, sourcePath, cfgTargets, attempts,
                   results, links, linksAtCall, csOps, csErr, pscErr, psdErr,
                   dirErrs>>

\* lstatFunc(targetPath)
CsLstat ==
    /\ pc = "cs_lstat"
    /\ pc' = IF links[CsTarget] # NoLink THEN "cs_remove" ELSE "cs_symlink"
    /\ UNCHANGED <<provrest, files, fileIdx, sourcePath, cfgTargets, attempts, results,
                   links, linksAtCall, csOps, csErr, pscErr, psdErr, dirErrs>>

\* err = removeFunc(targetPath)
CsRemove ==
    /\ pc = "cs_remove"
    /\ \/ /\ csOps' = Append(csOps, CsOp("remove", FALSE))
          /\ csErr' = Wrap("failed to remove existing symlink", <<E("remove")>>)
          /\ pc' = "psc_after"
          /\ UNCHANGED links
       \/ /\ csOps' = Append(csOps, CsOp("remove", TRUE))
          /\ links' = [links EXCEPT ![CsTarget] = NoLink]
          /\ pc' = "cs_symlink"
          /\ UNCHANGED csErr
    /\ UNCHANGED <<provrest, files, fileIdx, sourcePath, cfgTargets, attempts, results,
                   linksAtCall, pscErr, psdErr, dirErrs>>

\* err := symlinkFunc(sourcePath, targetPath)
CsSymlink ==
    /\ pc = "cs_symlink"
    /\ \/ /\ csOps' = Append(csOps, CsOp("symlink", FALSE))
          /\ csErr' = Wrap("failed to create symlink", <<E("symlink")>>)
          /\ UNCHANGED links
       \/ /\ links[CsTarget] = NoLink
          /\ csOps' = Append(csOps, CsOp("symlink", TRUE))
          /\ links' = [links EXCEPT ![CsTarget] = LinkTo(sourcePath)]
          /\ UNCHANGED csErr
    /\ pc' = "psc_after"
    /\ UNCHANGED <<provrest, files, fileIdx, sourcePath, cfgTargets, attempts, results,
                   linksAtCall, pscErr, psdErr, dirErrs>>

NextMain ==
    \/ MainVersion
    \/ MainUpdate
    \/ MainExeDir
    \/ MainChdir
    \/ MainFindDirs
    \/ MainLoop
    \/ MainAfterDir
    \/ PsdReadDir
    \/ PsdSkip
    \/ PsdConfig
    \/ PsdAfterConfig
    \/ PsdReturn
    \/ PscRead
    \/ PscLoop
    \/ PscAfterTarget
    \/ CsStat
    \/ CsLstat
    \/ CsRemove
    \/ CsSymlink
    \/ Next

SpecMain == InitMain /\ [][NextMain]_vars

\* if *updateFlag { if err := checkAndUpdateFunc(); err != nil { exitFunc(1) }
\* exitFunc(0) }, the call taken by its result: checkAndUpdate starts with the
\* fetch and returns nil or an error
MainUpdateBlock ==
    /\ PastVersion
    /\ flags.update
    /\ trace' = Append(trace, "fetch")
    /\ requests' = requests + 1
    /\ \E err \in {Nil, <<E("failed to get latest release")>>} :
          /\ retErr' = err
          /\ ExitFunc(IF err # Nil THEN <<1, 0>> ELSE <<0>>, "m_exedir")
    /\ UNCHANGED <<arvars, pvars, goos, version, release, assetURL, resp, updatePath,
                   deferred, fs, fmode, fsAtCall, ops, cleanups, scheduled, apiResp,
                   extractor, outcome>>

NextMainTest ==
    \/ MainVersion
    \/ MainUpdateBlock
    \/ MainExeDir
    \/ MainChdir
    \/ MainFindDirs
    \/ MainLoop
    \/ MainAfterDir
    \/ PsdReadDir
    \/ PsdSkip
    \/ PsdConfig
    \/ PsdAfterConfig
    \/ PsdReturn
    \/ PscRead
    \/ PscLoop
    \/ PscAfterTarget
    \/ CsStat
    \/ CsLstat
    \/ CsRemove
    \/ CsSymlink

SpecMainTest == InitMainTest /\ [][NextMainTest]_vars

(***************************************************************************)
(* replaceExecutable called repeatedly in one process for the same         *)
(* currentPath: the goroutine of an earlier call is still asleep while a   *)
(* later call runs                                                         *)
(***************************************************************************)
\* the payload handed to a further call
NextPayload == "nextexe"

\* the number of calls of replaceExecutable made so far
RxCalls == Cardinality({i \in 1..Len(trace) : trace[i] = "replace"})

\* replaceExecutable(currentPath, newPath) entered on Windows with an
\* executable at currentPath and a payload at newPath
InitRepeat ==
    /\ goos = "windows"
    /\ version = DevLabel
    /\ pc = "rx_start"
    /\ release = NoRelease
    /\ assetURL = NoURL
    /\ resp = NoResp
    /\ updatePath = TempPath
    /\ deferred = << >>
    /\ \E old \in {Absent, "stale"} :
          fs = [p \in Paths |->
                  IF p = CurrentPath THEN "orig"
                  ELSE IF p = BackupPath(CurrentPath) THEN old
                  ELSE IF p = TempPath THEN "newexe"
                  ELSE Absent]
    /\ fmode = ModesAtStart(fs)
    /\ fsAtCall = fs
    /\ ops = << >>
    /\ cleanups = 0
    /\ scheduled = 0
    /\ requests = 0
    /\ apiResp = NoApiResp
    /\ exits = << >>
    /\ extractor = "none"
    /\ trace = << >>
    /\ retErr = Nil
    /\ outcome = "none"
    /\ ArIdle
    /\ flags = [version |-> FALSE, update |-> TRUE]
    /\ exitFunc = OsExit
    /\ ProvIdle

\* the caller, after a call returned, calls replaceExecutable again with
\* the same currentPath and a new payload at newPath
RxCallAgain ==
    /\ pc = "dl_defer"
    /\ RxCalls < MaxCalls
    /\ fs' = [fs EXCEPT ![updatePath] = NextPayload]
    /\ fmode' = [fmode EXCEPT ![updatePath] = "0600"]
    /\ pc' = "rx_start"
    /\ UNCHANGED <<pvars, arvars, goos, version, release, assetURL, resp, updatePath,
                   deferred, fsAtCall, ops, cleanups, scheduled, requests, apiResp, exits,
                   extractor, trace, retErr, outcome>>

NextRepeat ==
    \/ RxStart
    \/ RxRemoveStale
    \/ RxBackup
    \/ RxInstall
    \/ RxRestore
    \/ CleanupTask
    \/ RxCallAgain

SpecRepeat == InitRepeat /\ [][NextRepeat]_vars

(***************************************************************************)
(* Vocabulary of the properties                                            *)
(***************************************************************************)
InTrace(stage) == \E i \in 1..Len(trace) : trace[i] = stage

ErrHas(e, msg) == \E i \in 1..Len(e) : e[i].msg = msg

HasOp(o) == \E i \in 1..Len(ops) : ops[i] = o

\* a label without one leading "v"
StripV(s) == IF Len(s) > 0 /\ s[1] = "v" THEN Tail(s) ELSE s

\* replaceExecutable has just returned to downloadAndInstall
RxReturned == pc = "dl_defer" /\ Len(ops) > 0

BackupOk      == HasOp(Op("rename", CurrentPath, BackupPath(CurrentPath), TRUE))
BackupFailed  == HasOp(Op("rename", CurrentPath, BackupPath(CurrentPath), FALSE))
InstallOk     == HasOp(Op("rename", updatePath, CurrentPath, TRUE))
InstallFailed == HasOp(Op("rename", updatePath, CurrentPath, FALSE))
RestoreOk     == HasOp(Op("rename", BackupPath(CurrentPath), CurrentPath, TRUE))
RestoreFailed == HasOp(Op("rename", BackupPath(CurrentPath), CurrentPath, FALSE))

(***************************************************************************)
(* C1                                                                      *)
(***************************************************************************)
\* C1 (as stated): in every state a file exists at currentPath.
C1_SlotNeverEmpty == fs[CurrentPath] # Absent

\* C1 (amended): currentPath is empty exactly on the Windows branch, after
\* the backup rename succeeded, while the install or the restoring rename is
\* still to come or after both of them failed; on the Unix branch never.
C1_SlotEmptyOnlyDuringSwap ==
    fs[CurrentPath] = Absent <=>
        /\ IsWindows(goos)
        /\ BackupOk
        /\ \/ pc \in {"rx_install", "rx_restore"}
           \/ InstallFailed /\ RestoreFailed

C1_Witness ==
    /\ pc = "done"
    /\ IsWindows(goos)
    /\ InstallFailed
    /\ RestoreFailed
    /\ fs[CurrentPath] = Absent
    /\ fs[BackupPath(CurrentPath)] = "orig"

(***************************************************************************)
(* C2                                                                      *)
(***************************************************************************)
\* C2 (as stated): on Windows, when the install rename failed, the call
\* returns the install error and currentPath holds the original content.
C2_InstallFailureRestores ==
    (RxReturned /\ IsWindows(goos) /\ InstallFailed) =>
        /\ ErrHas(retErr, "failed to install new executable")
        /\ fs[CurrentPath] = fsAtCall[CurrentPath]

\* C2 (amended): on Windows, when the install rename failed, the call
\* returns the install error after one restoring rename; currentPath holds
\* the original content when that rename succeeded, and is empty, with the
\* original content at the backup path, when it failed.
C2_InstallFailureRestoresIfRenamed ==
    (RxReturned /\ IsWindows(goos) /\ InstallFailed) =>
        /\ ErrHas(retErr, "failed to install new executable")
        /\ \/ /\ RestoreOk
              /\ fs[CurrentPath] = fsAtCall[CurrentPath]
           \/ /\ RestoreFailed
              /\ fs[CurrentPath] = Absent
              /\ fs[BackupPath(CurrentPath)] = fsAtCall[CurrentPath]

C2_Witness ==
    /\ RxReturned
    /\ IsWindows(goos)
    /\ InstallFailed
    /\ RestoreOk
    /\ fs[CurrentPath] = "orig"
    /\ ErrHas(retErr, "failed to install new executable")

(***************************************************************************)
(* C3                                                                      *)
(***************************************************************************)
\* C3: whenever the local label without its leading "v" is "dev" or equals
\* the release tag without its leading "v", the run has selected no asset
\* and downloaded nothing.
C3_NoSelectionForDevOrEqual ==
    (\/ StripV(version) = DevLabel
     \/ release # NoRelease /\ StripV(version) = StripV(release.tag)) =>
        /\ ~InTrace("select")
        /\ ~InTrace("download")
        /\ assetURL = NoURL
        /\ resp = NoResp
        /\ fs[TempPath] = Absent

C3_Witness ==
    /\ pc = "done"
    /\ StripV(version) = DevLabel
    /\ release # NoRelease
    /\ StripV(release.tag) # DevLabel
    /\ Len(release.assets) > 0
    /\ findAssetURL(release, goos) # NoURL
    /\ trace = <<"fetch", "compare">>

(***************************************************************************)
(* C4                                                                      *)
(***************************************************************************)
\* C4 (as stated): when the fetch succeeded and the labels are equal after
\* stripping one leading "v", checkAndUpdate ends with "already latest" and
\* no error.
C4_EqualLabelsAlreadyLatest ==
    (pc = "done" /\ release # NoRelease
        /\ StripV(version) = StripV(release.tag)) =>
        /\ outcome = "latest"
        /\ retErr = Nil

\* C4 (amended): when the fetch succeeded and the labels are equal after
\* stripping one leading "v", checkAndUpdate returns no error; it ends with
\* "already latest" unless the stripped local label is "dev", where it ends
\* with the development-version outcome.
C4_EqualLabelsNoError ==
    (pc = "done" /\ release # NoRelease
        /\ StripV(version) = StripV(release.tag)) =>
        /\ retErr = Nil
        /\ outcome = IF StripV(version) = DevLabel THEN "dev" ELSE "latest"

C4_Witness ==
    /\ pc = "done"
    /\ version = <<"v", "1">>
    /\ release # NoRelease
    /\ release.tag = <<"1">>
    /\ outcome = "latest"
    /\ retErr = Nil

(***************************************************************************)
(* C5                                                                      *)
(***************************************************************************)
\* C5: once the comparison is over, the run is at or past asset selection
\* exactly when the fetch succeeded, the stripped local label is not "dev"
\* and it differs from the stripped tag; no ordering of the labels is
\* consulted.
C5_SelectionIffDifferent ==
    (pc \notin {"start", "compare"}) =>
        ((pc = "select" \/ InTrace("select")) <=>
            /\ release # NoRelease
            /\ StripV(version) # DevLabel
            /\ StripV(version) # StripV(release.tag))

\* an older tag is treated as an update
C5_Witness ==
    /\ InTrace("select")
    /\ version = <<"v", "2">>
    /\ release.tag = <<"v", "1">>

(***************************************************************************)
(* C6                                                                      *)
(***************************************************************************)
StageOrder == <<"fetch", "compare", "select", "download", "extract", "replace">>
StageOrderRaw == <<"fetch", "compare", "select", "download", "replace">>

IsPrefix(t, s) == Len(t) <= Len(s) /\ SubSeq(s, 1, Len(t)) = t

C7_NonSuccessStatusNotInstalled ==
    (resp # NoResp /\ resp.status \notin 200..299) =>
        /\ ~InTrace("replace")
        /\ pc = "done" => retErr # Nil

(***************************************************************************)
(* C8                                                                      *)
(***************************************************************************)
\* C8: on Windows, when the install rename and the restoring rename both
\* failed, the returned error names the failed restoration.
C8_RestoreFailureReported ==
    (RxReturned /\ IsWindows(goos) /\ InstallFailed /\ RestoreFailed) =>
        ErrHas(retErr, "failed to restore backup")

(***************************************************************************)
(* C9                                                                      *)
(***************************************************************************)
\* C9 (as stated): on Windows, when the backup rename failed, the call
\* returns the backup error, has attempted no further rename, and the file
\* system is as it was at the call.
C9_BackupFailureChangesNothing ==
    (RxReturned /\ IsWindows(goos) /\ BackupFailed) =>
        /\ ErrHas(retErr, "failed to backup current executable")
        /\ Len(ops) = 2
        /\ fs = fsAtCall

\* C9 (amended): on Windows, when the backup rename failed, the call
\* returns the backup error, has attempted no further rename, and every
\* path but the backup path is as it was at the call; a file that was at the
\* backup path is gone exactly when the removal of step 1 succeeded.
C9_BackupFailureKeepsAllButStaleBackup ==
    (RxReturned /\ IsWindows(goos) /\ BackupFailed) =>
        /\ ErrHas(retErr, "failed to backup current executable")
        /\ Len(ops) = 2
        /\ ops[1].op = "remove"
        /\ \A p \in Paths \ {BackupPath(CurrentPath)} : fs[p] = fsAtCall[p]
        /\ fs[BackupPath(CurrentPath)] =
              IF ops[1].ok THEN Absent ELSE fsAtCall[BackupPath(CurrentPath)]

C9_Witness ==
    /\ RxReturned
    /\ IsWindows(goos)
    /\ BackupFailed
    /\ fsAtCall[BackupPath(CurrentPath)] = "stale"
    /\ fs[BackupPath(CurrentPath)] = Absent
    /\ fs[CurrentPath] = "orig"

(***************************************************************************)
(* C10                                                                     *)
(***************************************************************************)
\* C10: on Windows, from the completion of the backup rename the backup
\* path holds the pre-swap content until the scheduled deletion runs; when
\* the call has returned success, currentPath holds the payload's content
\* and exactly one delayed deletion has been scheduled.
C10_WindowsSuccess ==
    /\ (IsWindows(goos) /\ pc \in {"rx_install", "rx_restore"}) =>
          fs[BackupPath(CurrentPath)] = fsAtCall[CurrentPath]
    /\ (RxReturned /\ IsWindows(goos) /\ retErr = Nil) =>
          /\ fs[CurrentPath] = fsAtCall[updatePath]
          /\ fs[CurrentPath] # Absent
          /\ fs[updatePath] = Absent
          /\ scheduled = 1
          /\ cleanups = 1 => fs[BackupPath(CurrentPath)] = fsAtCall[CurrentPath]

C10_Witness ==
    /\ RxReturned
    /\ IsWindows(goos)
    /\ retErr = Nil
    /\ fs[CurrentPath] = "newexe"
    /\ fs[BackupPath(CurrentPath)] = "orig"
    /\ fsAtCall[BackupPath(CurrentPath)] = "stale"
    /\ scheduled = 1
    /\ cleanups = 1

(***************************************************************************)
(* C11                                                                     *)
(***************************************************************************)
\* C11: on the Unix branch replaceExecutable attempts one rename, from the
\* payload path onto currentPath, and nothing else; if it fails the file
\* system is as it was and the install error is returned; if it succeeds
\* currentPath holds the payload.
C11_UnixSingleRename ==
    /\ pc = "rx_unix" => (ops = << >> /\ fs = fsAtCall)
    /\ (RxReturned /\ ~IsWindows(goos)) =>
          /\ Len(ops) = 1
          /\ ops[1].op = "rename"
          /\ ops[1].src = updatePath
          /\ ops[1].dst = CurrentPath
          /\ scheduled = 0
          /\ IF ops[1].ok
             THEN /\ retErr = Nil
                  /\ fs[CurrentPath] = fsAtCall[updatePath]
                  /\ fs[updatePath] = Absent
                  /\ \A p \in Paths \ {CurrentPath, updatePath} :
                        fs[p] = fsAtCall[p]
             ELSE /\ fs = fsAtCall
                  /\ retErr = Wrap("failed to install new executable", <<E("rename")>>)

C11_Witness ==
    /\ RxReturned
    /\ ~IsWindows(goos)
    /\ ops = <<Op("rename", TempPath, CurrentPath, FALSE)>>
    /\ fs[CurrentPath] = "orig"
    /\ fs[BackupPath(CurrentPath)] = "stale"
    /\ ErrHas(retErr, "failed to install new executable")

(***************************************************************************)
(* C12                                                                     *)
(***************************************************************************)
\* C12: after a successful Windows replace of an --update run the delayed
\* cleanup deletes the backup.  Nothing changes once the process has ended,
\* so the scheduled deletion has run by then.
C12_CleanupRunsBeforeExit ==
    (pc = "exited" /\ IsWindows(goos) /\ outcome = "updated") =>
        cleanups = 0

(***************************************************************************)
(* C13                                                                     *)
(***************************************************************************)
\* C13: a run of the cleanup task, whether its deletion succeeds or fails,
\* leaves the position and the result of the main flow, the executable and
\* the number of scheduled deletions as they are; and the result of a
\* successful Windows update is the same whether the cleanup has run or not.
C13_CleanupIndependent ==
    /\ [][cleanups' < cleanups =>
            /\ pc' = pc
            /\ retErr' = retErr
            /\ outcome' = outcome
            /\ exits' = exits
            /\ trace' = trace
            /\ scheduled' = scheduled
            /\ cleanups' = cleanups - 1
            /\ fs'[CurrentPath] = fs[CurrentPath]]_vars
    /\ []((pc \in {"cu_return", "done"} /\ outcome \in {"none", "updated"}
              /\ scheduled > 0) =>
            /\ retErr = Nil
            /\ scheduled = 1
            /\ cleanups \in {0, 1})

\* checkAndUpdate has returned success and the cleanup has not run
C13_Witness ==
    /\ pc = "done"
    /\ outcome = "updated"
    /\ retErr = Nil
    /\ cleanups = 1
    /\ fs[BackupPath(CurrentPath)] = "orig"

FetchError(cause) == <<E("failed to get latest release"), cause>>
StatusError(n) == [msg |-> "GitHub API returned status", code |-> n]

\* C15 (as stated): getLatestRelease returns metadata for every 2xx status
\* with a well-formed body and an error carrying the status code for every
\* non-2xx status; a transport failure or a malformed body yields an error
\* and no metadata.
C15_2xxReturnsMetadata ==
    (pc # "start") =>
        IF apiResp = NoApiResp
        THEN release = NoRelease /\ retErr = FetchError(E("transport"))
        ELSE IF apiResp.status \notin 200..299
        THEN release = NoRelease /\ retErr = FetchError(StatusError(apiResp.status))
        ELSE IF apiResp.wellFormed
        THEN release \in Releases /\ (pc = "compare" \/ InTrace("compare"))
        ELSE release = NoRelease /\ retErr # Nil

\* C15 (amended): getLatestRelease returns metadata for every response with
\* status 200 and a well-formed body and an error carrying the status code
\* for every other status, other 2xx statuses included; a transport failure
\* or a malformed body with status 200 yields an error and no metadata.
C15_Only200ReturnsMetadata ==
    (pc # "start") =>
        IF apiResp = NoApiResp
        THEN release = NoRelease /\ retErr = FetchError(E("transport"))
        ELSE IF apiResp.status # 200
        THEN release = NoRelease /\ retErr = FetchError(StatusError(apiResp.status))
        ELSE IF apiResp.wellFormed
        THEN release \in Releases /\ (pc = "compare" \/ InTrace("compare"))
        ELSE release = NoRelease /\ retErr = FetchError(E("decode"))

C15_Witness ==
    /\ pc = "done"
    /\ apiResp = [status |-> 201, wellFormed |-> TRUE]
    /\ release = NoRelease
    /\ retErr = FetchError(StatusError(201))

(***************************************************************************)
(* C16                                                                     *)
(***************************************************************************)
\* the token the claim names, and the assets of the release that carry it
ClaimedToken ==
    IF goos = "windows" THEN <<"windows", "-", "amd64", ".exe">>
    ELSE <<goos, "-", "amd64">>

Matching ==
    {i \in 1..Len(release.assets) : Contains(release.assets[i].name, ClaimedToken)}

FirstMatching == CHOOSE i \in Matching : \A j \in Matching : i <= j

\* C16 (as stated): findAssetURL returns the URL of the first asset whose
\* name contains the platform token, and the empty string exactly when no
\* asset name contains the token.
C16_FirstMatchOrEmptyIffNone ==
    InTrace("select") =>
        /\ Matching # {} => assetURL = release.assets[FirstMatching].url
        /\ assetURL = NoURL <=> Matching = {}

\* C16 (amended): findAssetURL returns the URL of the first asset whose
\* name contains the platform token, and the empty string exactly when no
\* asset name contains the token or the URL of the first such asset is
\* empty.
C16_FirstMatchOrEmpty ==
    InTrace("select") =>
        /\ Matching # {} => assetURL = release.assets[FirstMatching].url
        /\ assetURL = NoURL <=>
              \/ Matching = {}
              \/ release.assets[FirstMatching].url = NoURL

\* two assets carry the token and the first one is taken
C16_Witness ==
    /\ InTrace("select")
    /\ goos = "windows"
    /\ Matching = {1, 2}
    /\ release.assets[1].url # release.assets[2].url
    /\ assetURL = release.assets[1].url
    /\ assetURL # NoURL

(***************************************************************************)
(* C17                                                                     *)
(***************************************************************************)
\* C17: when an update is needed and findAssetURL returned the empty
\* string, checkAndUpdate returns the 'no suitable binary found' error and
\* has downloaded, extracted and replaced nothing.
C17_NoAssetNoDownload ==
    (InTrace("select") /\ assetURL = NoURL) =>
        /\ pc \in {"done", "exited"}
        /\ outcome = "failed"
        /\ retErr = <<E("no suitable binary found")>>
        /\ trace = <<"fetch", "compare", "select">>
        /\ resp = NoResp
        /\ extractor = "none"
        /\ updatePath = NoPath
        /\ ops = << >>
        /\ fs = fsAtCall
        /\ fs[CurrentPath] = "orig"
        /\ fs[TempPath] = Absent
        /\ fs[ExtractPath] = Absent

C17_Witness ==
    /\ pc = "done"
    /\ InTrace("select")
    /\ assetURL = NoURL
    /\ Len(release.assets) = MaxAssets
    /\ Matching = {}
    /\ retErr = <<E("no suitable binary found")>>

(***************************************************************************)
(* C18                                                                     *)
(***************************************************************************)
\* C18: checkAndUpdate returns no error only for a development build, for
\* equal labels, or when every stage succeeded: the download got a success
\* status and replaceExecutable was called with the current executable path
\* and the payload path and installed the payload.
C18_NoErrorOnlyInThreeCases ==
    (pc = "done" /\ retErr = Nil) =>
        \/ /\ StripV(version) = DevLabel
           /\ outcome = "dev"
        \/ /\ StripV(version) = StripV(release.tag)
           /\ outcome = "latest"
        \/ /\ outcome = "updated"
           /\ release # NoRelease
           /\ assetURL # NoURL
           /\ resp.status \in 200..299
           /\ InTrace("download")
           /\ InTrace("replace")
           /\ updatePath \in {TempPath, ExtractPath}
           /\ InstallOk
           /\ fs[CurrentPath] = fsAtCall[updatePath]

(***************************************************************************)
(* C19                                                                     *)
(***************************************************************************)
\* the last n atoms of a URL
LastOf(url, n) ==
    IF Len(url) < n THEN << >> ELSE SubSeq(url, Len(url) - n + 1, Len(url))

\* C19: the extraction is chosen by the end of the URL alone: extractZip
\* for ".zip", extractTarGz for ".tar.gz", and for every other URL the
\* downloaded file itself, as it was written, goes to replaceExecutable.
C19_StrategyFromSuffix ==
    /\ extractor # "none" =>
          extractor = IF LastOf(assetURL, 1) = <<".zip">> THEN "zip"
                      ELSE IF LastOf(assetURL, 2) = <<".tar", ".gz">> THEN "tgz"
                      ELSE "raw"
    /\ (extractor = "raw" /\ InTrace("replace")) =>
          /\ ~InTrace("extract")
          /\ updatePath = TempPath
          /\ fsAtCall[TempPath] = resp.body
          /\ fsAtCall[ExtractPath] = Absent
    /\ (extractor \in {"zip", "tgz"} /\ InTrace("replace")) =>
          /\ InTrace("extract")
          /\ updatePath = ExtractPath
          /\ fsAtCall[TempPath] = resp.body
          /\ resp.body = IF extractor = "zip" THEN "zipWith" ELSE "tgzWith"

\* a zip archive behind a URL that does not end in ".zip" is installed as is
C19_Witness ==
    /\ extractor = "raw"
    /\ assetURL = URLQuery
    /\ resp.body = "zipWith"
    /\ InTrace("replace")
    /\ updatePath = TempPath
    /\ fsAtCall[TempPath] = "zipWith"

(***************************************************************************)
(* C20                                                                     *)
(***************************************************************************)
\* the entries of the archive whose base name contains the identifier
BaseMatching ==
    {i \in 1..Len(archive) : Contains(Base(archive[i].name), Identifier)}

\* the extraction has returned and none of its I/O operations failed
ArReturnedClean == arPc = "ret" /\ ~arFault

\* C20: for an archive with exactly one entry whose base name contains
\* "secret_manager", the extraction returns a path whose file holds that
\* entry's content; for an archive without such an entry it fails with
\* 'executable not found in archive' and returns no path.
C20_ExtractsTheOneMatchingEntry ==
    ArReturnedClean =>
        /\ (\E i \in BaseMatching : BaseMatching = {i}) =>
              /\ arRet.err = Nil
              /\ arRet.path # << >>
              /\ arRet.path = arOut.path
              /\ \A i \in BaseMatching : arOut.content = archive[i].content
        /\ BaseMatching = {} =>
              /\ arRet.err = <<E("executable not found in archive")>>
              /\ arRet.path = << >>
              /\ arOut = NoOut

(***************************************************************************)
(* C21                                                                     *)
(***************************************************************************)
\* extractTarGz has settled on the entry at arIdx as the payload
TarSelected ==
    /\ arFormat = "tgz"
    /\ \/ arPc \in {"create", "copy", "chmod"}
       \/ arPc = "ret" /\ arOut # NoOut

\* C21: extractTarGz picks the first entry whose base name contains
\* "secret_manager"; an entry that carries the identifier only in its
\* directory components is never the payload.
C21_TarSelectsByBaseName ==
    TarSelected =>
        /\ arIdx \in BaseMatching
        /\ \A j \in BaseMatching : arIdx <= j

(***************************************************************************)
(* C22                                                                     *)
(***************************************************************************)
\* a path strictly below a directory
Within(dir, path) == IsPrefix(dir, path) /\ Len(path) > Len(dir)

\* C22: whatever the entry name, directory components and ".." segments
\* included, the file extractZip and extractTarGz create is located within
\* os.TempDir().
C22_ExtractedFileInTempDir ==
    arOut # NoOut => Within(TempDir, arOut.path)

(***************************************************************************)
(* C23                                                                     *)
(***************************************************************************)
\* C23: when extractTarGz returns after a successful copy, the extracted
\* file has mode 0755 exactly when the platform is not Windows; on Windows
\* osChmod is not called, and it is never called before the copy succeeded.
C23_TarModeSetUnlessWindows ==
    /\ (arFormat = "tgz" /\ arPc = "ret" /\ arRet.err = Nil) =>
          /\ arOut.content = archive[arIdx].content
          /\ arOut.mode = "0755" <=> ~IsWindows(goos)
          /\ Len(chmods) = IF IsWindows(goos) THEN 0 ELSE 1
    /\ IsWindows(goos) => chmods = << >>
    /\ chmods # << >> =>
          /\ arFormat = "tgz"
          /\ arPc = "ret"
          /\ chmods = <<arOut.path>>
          /\ arOut.content = archive[arIdx].content

(***************************************************************************)
(* C24                                                                     *)
(***************************************************************************)
\* checkAndUpdate has returned to main
Finished == pc \in {"done", "exited"}

\* an asset was selected and the download did not deliver it
DownloadGaveNothing ==
    /\ InTrace("select")
    /\ assetURL # NoURL
    /\ ~InTrace("extract")
    /\ ~InTrace("replace")

DownloadRefused == InTrace("download") /\ resp # NoResp /\ resp.status \notin 200..299

ExtractionFailed == InTrace("extract") /\ ~InTrace("replace")

ReplacementFailed ==
    \E i \in 1..Len(ops) : ops[i].op = "rename" /\ ~ops[i].ok

\* e is msg wrapped around a cause that is at least n errors deep
Forwarded(e, k, msg, n) == Len(e) >= k + n /\ e[k] = E(msg)

\* C24: every stage failure reaches the caller of checkAndUpdate with its
\* cause and the stage context: 'failed to get latest release' for the
\* fetch, 'failed to install update' for download, extraction and
\* replacement, and in addition 'failed to extract archive' for extraction.
C24_FailuresForwardedWithContext ==
    Finished =>
        /\ (InTrace("fetch") /\ release = NoRelease) =>
              Forwarded(retErr, 1, "failed to get latest release", 1)
        /\ (DownloadGaveNothing \/ DownloadRefused
               \/ ExtractionFailed \/ ReplacementFailed) =>
              Forwarded(retErr, 1, "failed to install update", 1)
        /\ ExtractionFailed =>
              Forwarded(retErr, 2, "failed to extract archive", 1)

(***************************************************************************)
(* C25                                                                     *)
(***************************************************************************)
UpdateRun == flags.update /\ ~flags.version

\* positions inside the provisioning
ProvisioningPcs ==
    {"m_chdir", "m_find", "m_loop", "m_after", "psd_read", "psd_loop",
     "psd_after", "psc_read", "psc_loop", "psc_after", "cs_stat", "cs_lstat",
     "cs_remove", "cs_symlink", "returned"}

\* nothing of the provisioning has happened
NoProvisioning ==
    /\ pc \notin ProvisioningPcs
    /\ secretDirs = << >>
    /\ processed = << >>
    /\ attempts = << >>
    /\ csOps = << >>
    /\ links = [t \in TargetPaths |->
                  IF t = T2 THEN [kind |-> "file", to |-> << >>]
                  ELSE [kind |-> "absent", to |-> << >>]]

Count(seq, x) == Cardinality({i \in 1..Len(seq) : seq[i] = x})

\* C25: with --update and without --version, main runs checkAndUpdate
\* once, exits with 0 when it returned no error and with 1 when it returned
\* an error, and does no symlink provisioning.
C25_UpdateRunExitsByResult ==
    UpdateRun =>
        /\ NoProvisioning
        /\ Count(trace, "fetch") <= 1
        /\ requests <= 1
        /\ pc \notin {"done", "exited"} => exits = << >>
        /\ pc = "exited" =>
              /\ Count(trace, "fetch") = 1
              /\ outcome # "none"
              /\ exits = <<IF retErr = << >> THEN 0 ELSE 1>>

C25_Witness ==
    /\ UpdateRun
    /\ pc = "exited"
    /\ InTrace("replace")
    /\ retErr # << >>
    /\ exits = <<1>>

(***************************************************************************)
(* C26                                                                     *)
(***************************************************************************)
\* C26: processSymlinkConfig hands every target of the config to
\* createSymlink, in order, whatever createSymlink returned for the earlier
\* ones, and returns no error once the config was read and parsed; its only
\* errors are those of reading and parsing, before any attempt.
C26_EveryTargetAttempted ==
    /\ IsPrefix(attempts, cfgTargets)
    /\ Len(results) <= Len(attempts)
    /\ Len(attempts) <= Len(results) + 1
    /\ pc = "psd_after" =>
          IF pscErr = << >>
          THEN /\ attempts = cfgTargets
               /\ Len(results) = Len(cfgTargets)
          ELSE /\ attempts = << >>
               /\ cfgTargets = << >>
               /\ pscErr[1].msg \in {"failed to read config file",
                                     "failed to parse JSON"}

\* two targets, both failed, two attempts
C26_Witness ==
    /\ pc = "psd_after"
    /\ pscErr = << >>
    /\ Len(cfgTargets) = 2
    /\ attempts = cfgTargets
    /\ Len(results) = 2
    /\ \A i \in 1..Len(results) : results[i] # << >>

(***************************************************************************)
(* C27                                                                     *)
(***************************************************************************)
\* createSymlink has returned for the target t, which lies in an existing
\* directory and held something when the call began
CsReturnedOccupied(t) ==
    /\ pc = "psc_after"
    /\ attempts # << >>
    /\ t = attempts[Len(attempts)]
    /\ t \in {T1, T2}
    /\ linksAtCall[t].kind # "absent"

\* C27: when something exists at the target path, createSymlink removes it
\* and then creates the symlink, so that on success the target is a link to
\* the source; when the removal fails it returns 'failed to remove existing
\* symlink' and does not try to create the link.
C27_ExistingTargetReplaced ==
    \A t \in TargetPaths :
        CsReturnedOccupied(t) =>
            /\ csOps # << >>
            /\ csOps[1] = [op |-> "remove", path |-> t, ok |-> csOps[1].ok]
            /\ ~csOps[1].ok =>
                  /\ Len(csOps) = 1
                  /\ Len(csErr) = 2
                  /\ csErr[1].msg = "failed to remove existing symlink"
                  /\ links = linksAtCall
            /\ csOps[1].ok =>
                  /\ Len(csOps) = 2
                  /\ csOps[2].op = "symlink"
                  /\ csOps[2].path = t
            /\ csErr = << >> =>
                  /\ csOps = << [op |-> "remove", path |-> t, ok |-> TRUE],
                                [op |-> "symlink", path |-> t, ok |-> TRUE] >>
                  /\ links[t] = [kind |-> "link", to |-> sourcePath]
                  /\ \A u \in TargetPaths \ {t} : links[u] = linksAtCall[u]

C27_Witness ==
    /\ CsReturnedOccupied(T2)
    /\ linksAtCall[T2].kind = "file"
    /\ csErr = << >>
    /\ links[T2] = [kind |-> "link", to |-> sourcePath]

(***************************************************************************)
(* C28                                                                     *)
(***************************************************************************)
\* C28: for a target whose directory does not exist createSymlink returns
\* no error, calls neither removeFunc nor symlinkFunc and leaves every
\* target path as it was; the caller goes on with the next target.
C28_MissingDirSkipped ==
    /\ links[T3].kind = "absent"
    /\ \A i \in 1..Len(results) : attempts[i] = T3 => results[i] = << >>
    /\ (pc = "psc_after" /\ attempts[Len(attempts)] = T3) =>
          /\ csErr = << >>
          /\ csOps = << >>
          /\ links = linksAtCall

\* the target after the skipped one has been attempted
C28_Witness ==
    /\ pc = "psc_after"
    /\ Len(attempts) = 2
    /\ attempts[1] = T3
    /\ results = << << >> >>
    /\ attempts[2] = T1
    /\ csErr = << >>
    /\ links[T1].kind = "link"

(***************************************************************************)
(* C29                                                                     *)
(***************************************************************************)
\* C29: an error of processSecretDirectory neither stops main's loop nor
\* makes main exit: the directories are processed once each, in the order
\* they were found, and exitFunc is not called once the loop has begun.
C29_LoopSurvivesDirErrors ==
    /\ IsPrefix(processed, secretDirs)
    /\ \A i \in 1..Len(dirErrs) : Count(processed, dirErrs[i]) = 1
    /\ processed # << >> => (exits = << >> /\ pc # "exited")
    /\ pc = "returned" => (processed = secretDirs /\ exits = << >>)

\* the first of two directories failed and the second was processed
C29_Witness ==
    /\ pc = "returned"
    /\ Len(secretDirs) = 2
    /\ processed = secretDirs
    /\ dirErrs = <<secretDirs[1]>>
    /\ links[T1].kind = "link"
    /\ links[T1].to[1] = secretDirs[2][1]
    /\ exits = << >>

(***************************************************************************)
(* C30                                                                     *)
(***************************************************************************)
RxActive ==
    pc \in {"rx_start", "rx_remove", "rx_backup", "rx_install", "rx_restore",
            "rx_unix"}

RxEnded == InTrace("replace") /\ ~RxActive

RenameOp(o, src, dst) == o.op = "rename" /\ o.src = src /\ o.dst = dst

\* the operations of the Windows branch, in their order
RxWindowsShape ==
    /\ Len(ops) <= 4
    /\ Len(ops) >= 1 => (ops[1].op = "remove" /\ ops[1].src = "exe.old")
    /\ Len(ops) >= 2 => RenameOp(ops[2], "exe", "exe.old")
    /\ Len(ops) >= 3 => (ops[2].ok /\ RenameOp(ops[3], updatePath, "exe"))
    /\ Len(ops) = 4 => (~ops[3].ok /\ RenameOp(ops[4], "exe.old", "exe"))
    /\ RxEnded =>
          \/ Len(ops) = 2 /\ ~ops[2].ok /\ outcome # "updated"
          \/ Len(ops) = 3 /\ ops[3].ok /\ outcome # "failed"
          \/ Len(ops) = 4 /\ outcome # "updated"

\* the one operation of the Unix branch
RxUnixShape ==
    /\ Len(ops) <= 1
    /\ Len(ops) = 1 => RenameOp(ops[1], updatePath, "exe")
    /\ RxEnded =>
          /\ Len(ops) = 1
          /\ outcome # (IF ops[1].ok THEN "failed" ELSE "updated")

RxShape ==
    /\ pc = "rx_start" => ~InTrace("replace")
    /\ pc \in {"rx_remove", "rx_backup", "rx_install", "rx_restore"} =>
          goos = "windows"
    /\ pc = "rx_unix" => goos # "windows"
    /\ InTrace("replace") =>
          IF goos = "windows" THEN RxWindowsShape ELSE RxUnixShape

\* C30: a call of replaceExecutable takes one platform branch and ends as
\* done or failed: on Unix after exactly one rename attempt, on Windows
\* after one remove attempt and at most three rename attempts (backup,
\* install, restore) in that order, the install rename only after the
\* backup rename succeeded; and every call ends.
C30_ReplaceStateMachine == []RxShape /\ (RxActive ~> RxEnded)

C30_Witness ==
    /\ RxEnded
    /\ goos = "windows"
    /\ Len(ops) = 4
    /\ ops[4].ok

(***************************************************************************)
(* C31                                                                     *)
(***************************************************************************)
\* the error replaceExecutable returns on Windows, from the renames alone
C31_ResultOfRenames ==
    IF ~ops[2].ok THEN <<E("failed to backup current executable"), E("rename")>>
    ELSE IF ops[3].ok THEN << >>
    ELSE <<E("failed to install new executable"), E("rename")>>

\* C31: on Windows the removal of a stale backup is best-effort: whether
\* it succeeded, failed or found no file, the backup rename is attempted
\* next, and the returned result is determined by the outcomes of the
\* renames alone.
C31_StaleRemovalBestEffort ==
    /\ (IsWindows(goos) /\ pc \in {"rx_install", "rx_restore"}) =>
          /\ Len(ops) >= 2
          /\ ops[1].op = "remove"
          /\ ops[2].op = "rename" /\ ops[2].src = CurrentPath
    /\ (RxReturned /\ IsWindows(goos)) =>
          /\ Len(ops) >= 2
          /\ ops[1].op = "remove"
          /\ ops[1].src = BackupPath(CurrentPath)
          /\ ops[2].op = "rename" /\ ops[2].src = CurrentPath
          /\ retErr = C31_ResultOfRenames

\* the removal failed on an existing stale backup and the call succeeded
C31_Witness ==
    /\ RxReturned
    /\ IsWindows(goos)
    /\ fsAtCall[BackupPath(CurrentPath)] = "stale"
    /\ ~ops[1].ok
    /\ retErr = Nil
    /\ fs[CurrentPath] = "newexe"

\* the removal found no file and the call succeeded
C31_WitnessNoFile ==
    /\ RxReturned
    /\ IsWindows(goos)
    /\ fsAtCall[BackupPath(CurrentPath)] = Absent
    /\ ~ops[1].ok
    /\ retErr = Nil

(***************************************************************************)
(* C32                                                                     *)
(***************************************************************************)
\* the content currentPath had at the call is at currentPath or at the backup path
C32_OriginalPresent ==
    /\ fsAtCall[CurrentPath] # Absent
    /\ \/ fs[CurrentPath] = fsAtCall[CurrentPath]
       \/ fs[BackupPath(CurrentPath)] = fsAtCall[CurrentPath]

\* C32: on Windows, from the start of replaceExecutable until the install
\* rename has succeeded, and in every state after a failed call, the
\* pre-swap content of the executable is at currentPath or at
\* currentPath + ".old".
C32_OriginalNeverLost ==
    (InTrace("replace") /\ IsWindows(goos) /\ ~InstallOk) => C32_OriginalPresent

\* mid-swap: the original has replaced a stale backup and currentPath is empty
C32_Witness ==
    /\ pc = "rx_install"
    /\ IsWindows(goos)
    /\ fsAtCall[BackupPath(CurrentPath)] = "stale"
    /\ ~ops[1].ok
    /\ fs[CurrentPath] = Absent
    /\ fs[BackupPath(CurrentPath)] = "orig"

\* after a failed call whose restoring rename failed too
C32_WitnessFailed ==
    /\ pc = "exited"
    /\ IsWindows(goos)
    /\ InstallFailed
    /\ RestoreFailed
    /\ outcome = "failed"
    /\ fs[BackupPath(CurrentPath)] = "orig"

(***************************************************************************)
(* C33                                                                     *)
(***************************************************************************)
\* a run of a cleanup task changes no path but the backup path
C33_CleanupTouchesBackupOnly ==
    [][cleanups' < cleanups =>
          \A p \in Paths \ {BackupPath(CurrentPath)} : fs'[p] = fs[p]]_vars

\* while a call waits to restore currentPath after a failed install, the
\* backup it made is in place
C33_NeededBackupInPlace ==
    (IsWindows(goos) /\ pc = "rx_restore") =>
        /\ fs[BackupPath(CurrentPath)] # Absent
        /\ fs[BackupPath(CurrentPath)] = fsAtCall[CurrentPath]

\* C33: a delayed cleanup task deletes only the backup path and never
\* currentPath or the payload; and when replaceExecutable is called again
\* for the same currentPath before an earlier call's cleanup has run, that
\* cleanup does not delete the backup the later call needs for restoring
\* currentPath after a failed install.
C33_CleanupOnlyOwnBackup ==
    C33_CleanupTouchesBackupOnly /\ []C33_NeededBackupInPlace

\* the second call lost its backup to the first call's cleanup task
C33_BackupDeletedUnderSecondCall ==
    /\ RxCalls = 2
    /\ pc = "rx_restore"
    /\ fsAtCall[CurrentPath] = "newexe"
    /\ fs[CurrentPath] = Absent
    /\ fs[BackupPath(CurrentPath)] = Absent

(***************************************************************************)
(* C34                                                                     *)
(***************************************************************************)
\* permission bits with an execute bit
C34_Executable(m) == m \in {"0755"}

\* C34: off Windows, once checkAndUpdate has reported a successful update,
\* the file at the executable path has execute permission, whichever of
\* the three payload variants (raw download, zip entry, tar.gz entry) was
\* installed.
C34_InstalledFileExecutable ==
    (pc \in {"done", "exited"} /\ ~IsWindows(goos) /\ outcome = "updated") =>
        C34_Executable(fmode[CurrentPath])

\* the raw download installed with the mode of os.CreateTemp
C34_RawInstalledNotExecutable ==
    /\ pc = "done"
    /\ ~IsWindows(goos)
    /\ outcome = "updated"
    /\ extractor = "raw"
    /\ resp.status = 200
    /\ fs[CurrentPath] = "newexe"
    /\ fmode[CurrentPath] = "0600"

\* the tar.gz entry installed after a chmod that succeeded
C34_TarInstalledExecutable ==
    /\ pc = "done"
    /\ ~IsWindows(goos)
    /\ outcome = "updated"
    /\ extractor = "tgz"
    /\ fmode[CurrentPath] = "0755"

(***************************************************************************)
(* C35                                                                     *)
(***************************************************************************)
\* downloadAndInstall has returned after it had created the download file
C35_ReturnedPastTemp ==
    /\ pc \in {"cu_return", "done", "exited"}
    /\ InTrace("download")

\* C35: after downloadAndInstall has returned on a path that got past the
\* creation of the temporary download file (download failure, extraction
\* failure, replacement failure, success), neither the download file nor
\* a file created by the extraction remains in the temporary directory.
C35_NoTempFilesLeft ==
    C35_ReturnedPastTemp =>
        /\ fs[TempPath] = Absent
        /\ fs[ExtractPath] = Absent

\* the same, apart from an extraction that failed after creating its file
C35_NoTempFilesLeftUnlessCopyFailed ==
    (/\ C35_ReturnedPastTemp
     /\ ~(ErrHas(retErr, "failed to extract archive") /\ ErrHas(retErr, "copy"))) =>
        /\ fs[TempPath] = Absent
        /\ fs[ExtractPath] = Absent

\* the extraction's copy failed and its partial file is still there
C35_PartialExtractLeft ==
    /\ pc = "exited"
    /\ extractor = "zip"
    /\ ErrHas(retErr, "failed to extract archive")
    /\ fs[TempPath] = Absent
    /\ fs[ExtractPath] = "partial"

(***************************************************************************)
(* C36                                                                     *)
(***************************************************************************)
\* once exitFunc has been called, main calls it no more, starts no update
\* check and provisions nothing
C36_NothingAfterExit ==
    [][exits # << >> =>
          /\ exits' = exits
          /\ trace' = trace
          /\ requests' = requests
          /\ secretDirs' = secretDirs
          /\ processed' = processed
          /\ links' = links]_vars

\* C36: on every path through main exitFunc is called at most once and no
\* further work (update check, second exit call, symlink provisioning) is
\* done after the call, also when exitFunc returns to main as the tests'
\* replacement does; a failed --update never reports 0 after 1.
C36_ExitAtMostOnce ==
    /\ [](Len(exits) <= 1)
    /\ [](exits # <<1, 0>>)
    /\ C36_NothingAfterExit

\* a failed --update reported 1 and then 0
C36_FailedUpdateReportsZero ==
    /\ exitFunc = "returns"
    /\ flags.update
    /\ ~flags.version
    /\ retErr # << >>
    /\ exits = <<1, 0>>

\* --version alone: exitFunc(0), and then a directory was processed
C36_ProvisioningAfterVersionExit ==
    /\ exitFunc = "returns"
    /\ flags.version
    /\ ~flags.update
    /\ exits = <<0>>
    /\ pc = "returned"
    /\ processed # << >>

====
